---- MODULE Spec2Model ----
(***************************************************************************)
(* Model of the request tool's batch case runner (BatchThreadExecutor),    *)
(* its case executor (_run_single_case), the result summary                *)
(* (build_summary) and the assertion engine (AssertionEngine).             *)
(*                                                                         *)
(* Threads: thread 0 is the caller's thread (the GUI thread that runs      *)
(* start() and cancel()); thread c in 1..MaxCases is the pool task that    *)
(* executes case c (_CaseRunnable.run) and then the completion callback    *)
(* _on_case_done under the runner's lock.  start() runs _start_next        *)
(* WITHOUT the lock, so its statements interleave with the statements of   *)
(* a callback that holds the lock; both sides are modelled statement by    *)
(* statement wherever they touch _active or _pending.                      *)
(***************************************************************************)
EXTENDS Integers, Sequences, FiniteSets, TLC

\* ------------------------------------------------------------------ bounds
MaxCases == 3
MaxWorkers == 2
MaxCancels == 2

CaseIds == 1..MaxCases
MainThread == 0
Threads == {MainThread} \cup CaseIds
NoThread == -1

VARIABLES
  max_workers,   \* BatchThreadExecutor.max_workers
  results,       \* _results: sequence of case results, completion order
  total,         \* _total
  completed,     \* _completed
  pending,       \* _pending: FIFO of case ids not yet dispatched
  active,        \* _active
  canceled,      \* _canceled
  lock,          \* holder of _lock, NoThread when free
  pc,            \* position of every thread
  lcase,         \* local `case` of a thread inside _start_next
  ltmp,          \* value of _active read by a statement that has not stored yet
  wres,          \* result produced by runner(case) of task c, kept until on_done
  started,       \* start() has been called on this executor
  cancels,       \* number of cancel() calls made so far
  finishedLog,   \* emissions of the finished signal (the delivered lists)
  progressLog,   \* emissions of the progress signal, <<completed, total>>
  caseIn,        \* _run_single_case: the case handed to the executor
  transportIn,   \* _run_single_case: what the transport does when called
  engineIn,      \* _run_single_case: what the assertion engine does when called
  caseOut,       \* _run_single_case: the record returned (or raised)
  casePc,        \* "idle", "input" (inputs drawn), "done_seq"/"done_thread" (returned)
  responseIn,    \* _run_single: the response handed to the engine
  specIn,        \* _run_single: the assertion spec
  verdictOut,    \* _run_single: the verdict returned (or raised)
  assertPc,      \* "idle", "input" (inputs drawn), "done" (_run_single returned)
  specsIn,       \* run_assertions: the ordered specs
  verdictsOut,   \* run_assertions: [raised, items], the list returned (or raised)
  rcCases,       \* run_cases: the submitted cases
  rcMode,        \* run_cases: "none", "seq" (BatchExecutor) or "pool" (BatchThreadExecutor)
  rcTask,        \* run_cases: state of the runnable of every submitted case
  rcResults,     \* run_cases: the local list `results`
  rcPc,          \* run_cases: "idle", "input", "loop", "wait", "returned", "raised"
  batch_running,      \* ApiTestController._batch_running
  batch_executor,     \* ApiTestController._batch_executor: "None" or "executor"
  batch_canceled,     \* ApiTestController._batch_canceled
  suite_name,         \* ApiTestController._suite_name: "None" or the run's name
  suite_on_finished,  \* ApiTestController._suite_on_finished: "None" or "callback"
  ctlPc,              \* call stack of the caller's thread inside the controller
  callbackLog,        \* invocations of the on_finished callback
  exportLog,          \* calls of ResultExporter.export_json
  slotRuns,           \* executions of _on_suite_finished begun so far
  handled,            \* finished emissions whose slot call has begun
  errorLog,           \* exceptions caught by run_suite_async (line 232)
  runCalls,           \* calls of run_suite_async that went past line 210
  ignoredCall         \* a call of run_suite_async has returned at line 210

batchVars == <<max_workers, results, total, completed, pending, active, canceled,
               lock, pc, lcase, ltmp, wres, started, cancels, finishedLog,
               progressLog>>

caseVars == <<caseIn, transportIn, engineIn, caseOut, casePc>>

assertVars == <<responseIn, specIn, verdictOut, assertPc, specsIn, verdictsOut>>

runVars == <<rcCases, rcMode, rcTask, rcResults, rcPc>>

ctlVars == <<batch_running, batch_executor, batch_canceled, suite_name,
             suite_on_finished, ctlPc, callbackLog, exportLog, slotRuns,
             handled, errorLog, runCalls, ignoredCall>>

vars == <<batchVars, caseVars, assertVars, runVars, ctlVars>>

\* ------------------------------------------------------ values of a case
\* Python values are modelled by tagged records; a value that is not a
\* mapping (None, a string, ...) has kind "nonmap" and raises AttributeError
\* on .get.  The success field of a response is "True", "False", "None"
\* (absent) or "other" (present, not a boolean).
Response(kind, success, error_type) ==
  [kind |-> kind, success |-> success, error_type |-> error_type]

Verdicts(iterable, items) == [iterable |-> iterable, items |-> items]

Case(kind, id) == [kind |-> kind, case_id |-> id]

NoResponse == Response("nonmap", "None", "")
NoVerdicts == Verdicts(TRUE, <<>>)

\* what http_client.send_request does when called
Transport(raises, response) == [raises |-> raises, response |-> response]

\* what assertion_engine.run_assertions does when called
Engine(raises, value) == [raises |-> raises, value |-> value]

\* the record both executors return; raised = the call raised instead
CaseResult(case_id, response, assertion_results, result, engine_invoked) ==
  [raised |-> FALSE, case_id |-> case_id, response |-> response,
   assertion_results |-> assertion_results, result |-> result,
   engine_invoked |-> engine_invoked]

CaseRaised(engine_invoked) ==
  [raised |-> TRUE, case_id |-> 0, response |-> NoResponse,
   assertion_results |-> NoVerdicts, result |-> "NONE",
   engine_invoked |-> engine_invoked]

NoResult == CaseResult(0, NoResponse, NoVerdicts, "NONE", FALSE)

\* all(item.get("result") == "PASS" for item in assertion_results), evaluated
\* left to right and stopping at the first item that is not PASS:
\* "PASS", "FAIL", or "raise" when an item that is reached is not a mapping.
RECURSIVE all_pass(_)
all_pass(items) ==
  IF items = <<>> THEN "PASS"
  ELSE IF Head(items).kind # "map" THEN "raise"
  ELSE IF Head(items).result # "PASS" THEN "FAIL"
  ELSE all_pass(Tail(items))

\* response_result.get("success") is False
success_is_false(response) == response.success = "False"

\* the except branch of _run_single_case: case.get(...) again, then the
\* synthetic FAIL record with the executor's error type
case_error(err_type, case, engine_invoked) ==
  IF case.kind # "map"
    THEN CaseRaised(engine_invoked)
    ELSE CaseResult(case.case_id, Response("map", "False", err_type),
                    NoVerdicts, "FAIL", engine_invoked)

\* _run_single_case of BatchExecutor and of BatchThreadExecutor; the two
\* differ in the error type only.
run_single_case(err_type, case, transport, engine) ==
  IF case.kind # "map" THEN case_error(err_type, case, FALSE)
  ELSE IF transport.raises THEN case_error(err_type, case, FALSE)
  ELSE IF engine.raises THEN case_error(err_type, case, TRUE)
  ELSE IF transport.response.kind # "map" THEN case_error(err_type, case, TRUE)
  ELSE IF success_is_false(transport.response)
    THEN CaseResult(case.case_id, transport.response, engine.value, "FAIL", TRUE)
  ELSE IF ~engine.value.iterable THEN case_error(err_type, case, TRUE)
  ELSE LET passed == all_pass(engine.value.items) IN
    IF passed = "raise" THEN case_error(err_type, case, TRUE)
    ELSE CaseResult(case.case_id, transport.response, engine.value, passed, TRUE)

\* ------------------------------------------------------------ build_summary
RECURSIVE count_pass(_)
count_pass(cases) ==
  IF cases = <<>> THEN 0
  ELSE (IF Head(cases).result = "PASS" THEN 1 ELSE 0) + count_pass(Tail(cases))

\* a summary that counts every case as passed
build_summary_all_pass(cases) ==
  [total |-> Len(cases), pass |-> Len(cases), fail |-> 0]

build_summary(cases) ==
  LET n == Len(cases)
      passed == count_pass(cases)
  IN [total |-> n, pass |-> passed, fail |-> n - passed]

\* ============================================================ AssertionEngine
\* Python values seen by the engine: V(t, n, s) with t the type tag, n the
\* number and s the text (a sequence of characters).  An int holds n as it
\* is; a float holds n in units of 1/Scale.
Scale == 100

V(t, n, s) == [t |-> t, n |-> n, s |-> s]
VNone == V("none", 0, <<>>)
VInt(n) == V("int", n, <<>>)
VFloat(n) == V("float", n, <<>>)
VStr(s) == V("str", 0, s)
VList(n) == V("list", n, <<>>)    \* a list of n elements

\* a float result of _to_number / _parse_range, or None
Num(n) == [ok |-> TRUE, v |-> n]
NoNum == [ok |-> FALSE, v |-> 0]

Digits == {"0", "1", "2", "3", "4", "5", "6", "7", "8", "9"}
Whitespace == {" "}
RangeSeparators == {"~", "-"}

DigitVal(ch) ==
  CASE ch = "0" -> 0 [] ch = "1" -> 1 [] ch = "2" -> 2 [] ch = "3" -> 3
    [] ch = "4" -> 4 [] ch = "5" -> 5 [] ch = "6" -> 6 [] ch = "7" -> 7
    [] ch = "8" -> 8 [] ch = "9" -> 9

DigitChar(d) ==
  CASE d = 0 -> "0" [] d = 1 -> "1" [] d = 2 -> "2" [] d = 3 -> "3"
    [] d = 4 -> "4" [] d = 5 -> "5" [] d = 6 -> "6" [] d = 7 -> "7"
    [] d = 8 -> "8" [] d = 9 -> "9"

RECURSIVE lstrip(_)
lstrip(s) == IF s # <<>> /\ Head(s) \in Whitespace THEN lstrip(Tail(s)) ELSE s

RECURSIVE rstrip(_)
rstrip(s) ==
  IF s # <<>> /\ s[Len(s)] \in Whitespace THEN rstrip(SubSeq(s, 1, Len(s) - 1)) ELSE s

\* str.strip()
strip(s) == rstrip(lstrip(s))

\* the value of a non-empty run of digits
RECURSIVE digits_value(_)
digits_value(s) ==
  IF s = <<>> THEN 0
  ELSE digits_value(SubSeq(s, 1, Len(s) - 1)) * 10 + DigitVal(s[Len(s)])

all_digits(s) == \A i \in 1..Len(s) : s[i] \in Digits

has_sign(s) == s # <<>> /\ Head(s) \in {"-", "+"}
unsigned(s) == IF has_sign(s) THEN Tail(s) ELSE s
sign_of(s) == IF s # <<>> /\ Head(s) = "-" THEN -1 ELSE 1

RECURSIVE pow10(_)
pow10(k) == IF k = 0 THEN 1 ELSE 10 * pow10(k - 1)

index_of(s, ch) ==
  IF \E i \in 1..Len(s) : s[i] = ch
    THEN CHOOSE i \in 1..Len(s) : s[i] = ch /\ \A j \in 1..(i - 1) : s[j] # ch
    ELSE 0

\* float(int(text)): an optional sign and at least one digit, else ValueError
parse_int(text) ==
  LET body == unsigned(text) IN
    IF body # <<>> /\ all_digits(body)
      THEN Num(sign_of(text) * digits_value(body) * Scale)
      ELSE NoNum

\* float(text) for a text that holds a ".": an optional sign, digits around
\* one point with a digit on at least one side, else ValueError
parse_float(text) ==
  LET body == unsigned(text)
      dot == index_of(body, ".")
      whole == SubSeq(body, 1, dot - 1)
      frac == SubSeq(body, dot + 1, Len(body))
  IN IF dot > 0 /\ all_digits(whole) /\ all_digits(frac) /\ Len(whole) + Len(frac) > 0
       THEN Num(sign_of(text) *
                (digits_value(whole) * Scale
                 + (digits_value(frac) * Scale) \div pow10(Len(frac))))
       ELSE NoNum

\* str(n) for an int n >= 0 (the digits) and for negative n (sign, digits)
RECURSIVE nat_text(_)
nat_text(n) ==
  IF n < 10 THEN <<DigitChar(n)>> ELSE Append(nat_text(n \div 10), DigitChar(n % 10))

int_text(n) == IF n < 0 THEN <<"-">> \o nat_text(-n) ELSE nat_text(n)

\* str(x) for a float x held in units of 1/Scale: repr with the shortest
\* fraction, "5.0" for 5.0 and "1.5" for 1.5
float_text(n) ==
  LET a == IF n < 0 THEN -n ELSE n
      whole == a \div Scale
      frac == a % Scale
      fracText == IF frac % 10 = 0 THEN <<DigitChar(frac \div 10)>>
                  ELSE <<DigitChar(frac \div 10), DigitChar(frac % 10)>>
  IN (IF n < 0 THEN <<"-">> ELSE <<>>) \o nat_text(whole) \o <<".">> \o fracText

\* str(value)
py_str(value) ==
  CASE value.t = "str" -> value.s
    [] value.t = "int" -> int_text(value.n)
    [] value.t = "float" -> float_text(value.n)
    [] value.t = "none" -> <<"N", "o", "n", "e">>
    [] OTHER -> IF value.n = 0 THEN <<"[", "]">> ELSE <<"[", "?", "]">>

\* bool(value)
truthy(value) ==
  CASE value.t = "none" -> FALSE
    [] value.t = "str" -> value.s # <<>>
    [] value.t = "list" -> value.n # 0
    [] OTHER -> value.n # 0

\* a conversion that takes numbers only and no numeric text
to_number_no_text(value) ==
  IF value.t = "int" THEN Num(value.n * Scale)
  ELSE IF value.t = "float" THEN Num(value.n)
  ELSE NoNum

\* AssertionEngine._to_number
to_number(value) ==
  IF value.t = "int" THEN Num(value.n * Scale)
  ELSE IF value.t = "float" THEN Num(value.n)
  ELSE IF value.t = "str" THEN
    LET text == strip(value.s) IN
      IF text = <<>> THEN NoNum
      ELSE IF index_of(text, ".") > 0 THEN parse_float(text) ELSE parse_int(text)
  ELSE NoNum

\* re.split(r"\s*[~\-]\s*", text): the pieces between separators (the
\* white space around a separator goes with the separator)
RECURSIVE split_range(_, _)
split_range(text, piece) ==
  IF text = <<>> THEN <<rstrip(piece)>>
  ELSE IF Head(text) \in RangeSeparators
    THEN <<rstrip(piece)>> \o split_range(lstrip(Tail(text)), <<>>)
    ELSE split_range(Tail(text), Append(piece, Head(text)))

\* AssertionEngine._parse_range: [ok, lower, upper]
NoRange == [ok |-> FALSE, lower |-> 0, upper |-> 0]

range_order(lower, upper) ==
  IF lower <= upper THEN [ok |-> TRUE, lower |-> lower, upper |-> upper]
                    ELSE [ok |-> TRUE, lower |-> upper, upper |-> lower]

parse_range(value) ==
  LET text == strip(IF truthy(value) THEN py_str(value) ELSE <<>>) IN
    IF text = <<>> THEN NoRange
    ELSE LET parts == split_range(text, <<>>) IN
      IF Len(parts) # 2 THEN NoRange
      ELSE LET lower == to_number(VStr(parts[1]))
               upper == to_number(VStr(parts[2]))
           IN IF ~lower.ok \/ ~upper.ok THEN NoRange
              ELSE range_order(lower.v, upper.v)

\* -------------------------------------------------- specs, responses, verdicts
\* An assertion spec.  kind "nonmap" is a spec that is not a mapping.  type,
\* operator and path are named by strings: "None" is an absent field and
\* "unhashable" an operator that is a non-empty list.
ASpec(kind, type, operator, expected, path, header, target) ==
  [kind |-> kind, type |-> type, operator |-> operator, expected |-> expected,
   path |-> path, header |-> header, target |-> target]

\* A decoded JSON body: x is the member "x", items the elements of the member
\* "items", text its json.dumps form.  t = "none" is a null body.
JsonDoc(t, x, items, text) == [t |-> t, x |-> x, items |-> items, text |-> text]
NoJson == JsonDoc("none", VNone, <<>>, <<>>)

\* Response headers: t = "none" (absent), "dict" (items: <<name, value>>
\* pairs with distinct names) or "nonmap" (a non-empty value without .get).
Headers(t, items) == [t |-> t, items |-> items]
NoHeaders == Headers("none", <<>>)

\* The response handed to the engine.
EngineResponse(kind, status_code, elapsed_ms, response_text, response_json, headers) ==
  [kind |-> kind, success |-> "True", error_type |-> "",
   status_code |-> status_code, elapsed_ms |-> elapsed_ms,
   response_text |-> response_text, response_json |-> response_json,
   headers |-> headers]

\* A message: the literal text of the f-string (key) and its first argument.
Msg(key, arg) == [key |-> key, arg |-> arg]
NoMsg == Msg("", "")

\* the call raised instead of returning a verdict
VerdictRaised ==
  [raised |-> TRUE, kind |-> "map", type |-> "None", result |-> "NONE",
   expected |-> VNone, actual |-> VNone, message |-> NoMsg,
   operator |-> "None", path |-> "None"]

\* a clean-up that loses the message
sanitize_message_lost(message) == NoMsg

\* AssertionEngine._sanitize_message: "" for an empty message; the message
\* texts of the engine hold no line break, tab or blank line to remove.
sanitize_message(message) == IF message.key = "" THEN NoMsg ELSE message

\* AssertionEngine._sanitize_value: a string loses its trailing white space
\* (the texts here hold no line break or tab); other values pass.
sanitize_value(value) == IF value.t = "str" THEN VStr(rstrip(value.s)) ELSE value

\* "PASS" if passed else "FAIL"
result_of(passed) == IF passed THEN "PASS" ELSE "FAIL"

\* AssertionEngine._build_result
build_result(assertion_type, passed, expected, actual, message, assertion) ==
  [raised |-> FALSE, kind |-> "map", type |-> assertion_type,
   result |-> result_of(passed),
   expected |-> sanitize_value(expected), actual |-> sanitize_value(actual),
   message |-> sanitize_message(message),
   operator |-> IF assertion.kind = "map" THEN assertion.operator ELSE "None",
   path |-> IF assertion.kind = "map" THEN assertion.path ELSE "None"]

NumericOperators == {"==", "!=", ">", "<", ">=", "<="}

\* AssertionEngine._compare_numeric(operator)(a, b)
compare_numeric(operator, a, b) ==
  CASE operator = "==" -> a = b
    [] operator = "!=" -> a # b
    [] operator = ">" -> a > b
    [] operator = "<" -> a < b
    [] operator = ">=" -> a >= b
    [] operator = "<=" -> a <= b

is_number(value) == value.t \in {"int", "float"}

\* the number held by an int or float value, in units of 1/Scale
number_of(value) == IF value.t = "int" THEN value.n * Scale ELSE value.n

\* a float as a value (the float the engine reports as expected)
float_value(n) == VFloat(n)

\* assertion.get("operator") or default
operator_or(operator, default) == IF operator \in {"None", ""} THEN default ELSE operator

\* _run_status_code and _run_response_time: the same code over another field
run_numeric_field(type_name, missing_message, default_operator, actual, assertion) ==
  LET operator == operator_or(assertion.operator, default_operator)
      expected_raw == assertion.expected
  IN
  IF actual.t = "none"
    THEN build_result(type_name, FALSE, expected_raw, actual,
                      Msg(missing_message, ""), assertion)
  ELSE IF operator = "between" THEN
    LET range_values == parse_range(expected_raw) IN
      IF ~range_values.ok
        THEN build_result(type_name, FALSE, expected_raw, actual,
                          Msg("expected range required", ""), assertion)
      ELSE IF ~is_number(actual) THEN VerdictRaised   \* TypeError: float <= str
      ELSE LET passed == range_values.lower <= number_of(actual)
                         /\ number_of(actual) <= range_values.upper
           IN build_result(type_name, passed,
                 VStr(float_text(range_values.lower) \o <<"~">>
                      \o float_text(range_values.upper)),
                 actual,
                 IF passed THEN NoMsg ELSE Msg("not in range", ""), assertion)
  ELSE LET expected == to_number(expected_raw) IN
    IF ~expected.ok
      THEN build_result(type_name, FALSE, expected_raw, actual,
                        Msg("expected number required", ""), assertion)
    ELSE IF operator = "unhashable" THEN VerdictRaised  \* TypeError: dict.get(list)
    ELSE IF operator \notin NumericOperators
      THEN build_result(type_name, FALSE, float_value(expected.v), actual,
                        Msg("unsupported operator: ", operator), assertion)
    ELSE IF ~is_number(actual) /\ operator \notin {"==", "!="}
      THEN VerdictRaised                                \* TypeError: str < float
    ELSE LET passed == IF is_number(actual)
                         THEN compare_numeric(operator, number_of(actual), expected.v)
                         ELSE operator = "!="
         IN build_result(type_name, passed, float_value(expected.v), actual,
               IF passed THEN NoMsg ELSE Msg("failed", operator), assertion)

\* AssertionEngine._run_status_code
run_status_code(response_result, assertion) ==
  IF response_result.kind # "map" THEN VerdictRaised
  ELSE run_numeric_field("status_code", "status_code missing", "==",
                         response_result.status_code, assertion)

\* AssertionEngine._run_response_time
run_response_time(response_result, assertion) ==
  IF response_result.kind # "map" THEN VerdictRaised
  ELSE run_numeric_field("response_time", "elapsed_ms missing", "<",
                         response_result.elapsed_ms, assertion)

\* ------------------------------------------------------------ text operators
\* needle in haystack
RECURSIVE contains(_, _)
contains(haystack, needle) ==
  IF Len(needle) > Len(haystack) THEN FALSE
  ELSE IF SubSeq(haystack, 1, Len(needle)) = needle THEN TRUE
  ELSE contains(Tail(haystack), needle)

starts_with(text, prefix) ==
  Len(prefix) <= Len(text) /\ SubSeq(text, 1, Len(prefix)) = prefix

ends_with(text, suffix) ==
  Len(suffix) <= Len(text)
  /\ SubSeq(text, Len(text) - Len(suffix) + 1, Len(text)) = suffix

LowerChar(ch) == IF ch = "A" THEN "a" ELSE IF ch = "X" THEN "x" ELSE ch

\* str.lower()
lower(s) == [i \in 1..Len(s) |-> LowerChar(s[i])]

\* re.search(pattern, text) for patterns made of literal characters, "."
\* (any character) and "(" (an unterminated group: re.error)
regex_valid(pattern) == \A i \in 1..Len(pattern) : pattern[i] # "("

regex_matches_at(pattern, text) ==
  /\ Len(pattern) <= Len(text)
  /\ \A i \in 1..Len(pattern) : pattern[i] = "." \/ pattern[i] = text[i]

RECURSIVE regex_search(_, _)
regex_search(pattern, text) ==
  IF regex_matches_at(pattern, text) THEN TRUE
  ELSE IF text = <<>> THEN FALSE
  ELSE regex_search(pattern, Tail(text))

\* str(assertion.get("expected") or "")
expected_text(expected) == IF truthy(expected) THEN py_str(expected) ELSE <<>>

\* AssertionEngine._run_response_body
run_response_body(response_result, assertion) ==
  IF response_result.kind # "map" THEN VerdictRaised
  ELSE
  LET operator == assertion.operator
      expected == expected_text(assertion.expected)
      raw == response_result.response_text
      text == IF truthy(raw) THEN raw
              ELSE IF response_result.response_json.t # "none"
                THEN VStr(response_result.response_json.text)
              ELSE VStr(<<>>)
      verdict(passed, fail_text) ==
        build_result("response_body", passed, VStr(expected), text,
                     IF passed THEN NoMsg ELSE Msg(fail_text, ""), assertion)
  IN
  IF operator = "contains" THEN
    IF text.t # "str" THEN VerdictRaised
    ELSE verdict(contains(text.s, expected),
                 "response body does not contain expected text")
  ELSE IF operator = "not_contains" THEN
    IF text.t # "str" THEN VerdictRaised
    ELSE verdict(~contains(text.s, expected), "response body contains expected text")
  ELSE IF operator = "starts_with" THEN
    IF text.t # "str" THEN VerdictRaised
    ELSE verdict(starts_with(text.s, expected),
                 "response body does not start with expected text")
  ELSE IF operator = "ends_with" THEN
    IF text.t # "str" THEN VerdictRaised
    ELSE verdict(ends_with(text.s, expected),
                 "response body does not end with expected text")
  ELSE IF operator = "matches_regex" THEN
    IF ~regex_valid(expected)
      THEN build_result("response_body", FALSE, VStr(expected), text,
                        Msg("regex error: ", ""), assertion)
    ELSE IF text.t # "str" THEN VerdictRaised
    ELSE verdict(regex_search(expected, text.s), "regex not matched")
  ELSE build_result("response_body", FALSE, VStr(expected), text,
                    Msg("unsupported operator: ", operator), assertion)

\* headers.get(name): the value stored under name, None when absent
header_get(items, name) ==
  IF \E i \in 1..Len(items) : items[i][1] = name
    THEN items[CHOOSE i \in 1..Len(items) : items[i][1] = name][2]
    ELSE VNone

\* {str(k).lower(): v for k, v in headers.items()}.get(name, ""): the last
\* item whose lowered name is name wins
lowered_get(items, name) ==
  LET hits == {i \in 1..Len(items) : lower(items[i][1]) = name} IN
    IF hits = {} THEN VStr(<<>>)
    ELSE items[CHOOSE i \in hits : \A j \in hits : j <= i][2]

\* a or b
py_or(a, b) == IF truthy(a) THEN a ELSE b

\* the look-up of lines 292-297
header_actual(headers, header_name) ==
  IF header_name = <<>> THEN <<>>
  ELSE LET first == py_str(py_or(header_get(headers.items, header_name),
                            py_or(header_get(headers.items, lower(header_name)),
                                  VStr(<<>>))))
       IN IF first # <<>> THEN first
          ELSE py_str(lowered_get(headers.items, lower(header_name)))

\* AssertionEngine._run_header
run_header(response_result, assertion) ==
  IF response_result.kind # "map" THEN VerdictRaised
  ELSE
  LET operator == assertion.operator
      expected == expected_text(assertion.expected)
      header_name == py_str(py_or(assertion.header, py_or(assertion.target, VStr(<<>>))))
      headers == response_result.headers
  IN
  IF header_name # <<>> /\ headers.t = "nonmap" THEN VerdictRaised
  ELSE
  LET actual == header_actual(headers, header_name)
      verdict(passed, fail_text) ==
        build_result("header", passed, VStr(expected), VStr(actual),
                     IF passed THEN NoMsg ELSE Msg(fail_text, ""), assertion)
  IN
  IF operator = "contains"
    THEN verdict(contains(lower(actual), lower(expected)), "missing expected content")
  ELSE IF operator = "not_contains"
    THEN verdict(~contains(lower(actual), lower(expected)), "contains expected content")
  ELSE IF operator = "==" THEN verdict(actual = expected, "!=")
  ELSE IF operator = "!=" THEN verdict(actual # expected, "==")
  ELSE IF operator = "exists" THEN verdict(actual # <<>>, "not found")
  ELSE IF operator = "not_exists" THEN verdict(actual = <<>>, "should not exist")
  ELSE build_result("header", FALSE, VStr(expected), VStr(actual),
                    Msg("unsupported operator: ", operator), assertion)

\* ------------------------------------------------------------------ json_path
\* parse(path).find(json_data) of jsonpath_ng on the documents modelled here:
\* [raised, matches].  "$.x" is the member x, "$.items" the list member,
\* "$.items[*]" its elements, "$.missing" an absent member; "$[" does not
\* parse and "None" is an absent path (parse(None) raises).
json_find(path, json_data) ==
  CASE path = "$.x" -> [raised |-> FALSE, matches |-> <<json_data.x>>]
    [] path = "$.items" ->
         [raised |-> FALSE, matches |-> <<VList(Len(json_data.items))>>]
    [] path = "$.items[*]" -> [raised |-> FALSE, matches |-> json_data.items]
    [] path = "$.missing" -> [raised |-> FALSE, matches |-> <<>>]
    [] OTHER -> [raised |-> TRUE, matches |-> <<>>]

\* json.loads(text) for the texts modelled here: a JSON number, an optional
\* "-", digits without a leading zero, an optional fraction; anything else
\* is a ValueError
json_int_ok(body) == body # <<>> /\ all_digits(body) /\ (Len(body) = 1 \/ Head(body) # "0")

json_loads(text) ==
  LET body == IF text # <<>> /\ Head(text) = "-" THEN Tail(text) ELSE text
      dot == index_of(body, ".")
  IN IF dot = 0
       THEN IF json_int_ok(body)
              THEN [ok |-> TRUE, value |-> VInt(parse_int(text).v \div Scale)]
              ELSE [ok |-> FALSE, value |-> VNone]
       ELSE IF json_int_ok(SubSeq(body, 1, dot - 1))
               /\ dot < Len(body) /\ all_digits(SubSeq(body, dot + 1, Len(body)))
              THEN [ok |-> TRUE, value |-> VFloat(parse_float(text).v)]
              ELSE [ok |-> FALSE, value |-> VNone]

\* AssertionEngine._normalize_expected
normalize_expected(value) ==
  IF value.t # "str" THEN value
  ELSE LET text == strip(value.s) IN
    IF text = <<>> THEN value
    ELSE IF json_loads(text).ok THEN json_loads(text).value ELSE value

\* actual == expected_value for the values modelled here (a list is never
\* equal to a scalar)
py_eq(a, b) ==
  IF is_number(a) /\ is_number(b) THEN number_of(a) = number_of(b)
  ELSE a.t = b.t /\ a.n = b.n /\ a.s = b.s

\* AssertionEngine._is_not_empty: value not in (None, "", [])
is_not_empty(value) ==
  ~(value.t = "none" \/ (value.t = "str" /\ value.s = <<>>)
    \/ (value.t = "list" /\ value.n = 0))

\* a check that wants every match to be non-empty
all_not_empty(matches) == \A i \in 1..Len(matches) : is_not_empty(matches[i])

\* any(self._is_not_empty(value) for value in matches)
any_not_empty(matches) == \E i \in 1..Len(matches) : is_not_empty(matches[i])

JsonNumericOperators == {">", ">=", "<", "<=", "!="}

\* the part of _run_json_path after the matches are known (lines 76-166)
json_path_verdict(operator, path, expected, matches, assertion) ==
  LET actual == IF Len(matches) = 1 THEN matches[1] ELSE VList(Len(matches)) IN
  IF matches = <<>>
    THEN build_result("json_path", FALSE, expected, VNone,
                      Msg(" not found", path), assertion)
  ELSE IF operator = "unhashable" THEN VerdictRaised   \* TypeError: list in set
  ELSE IF operator \in {"exists", "not_exists"} THEN
    LET passed == IF operator = "exists" THEN matches # <<>> ELSE matches = <<>> IN
      build_result("json_path", passed, VStr(<<operator>>), matches[1],
                   IF passed THEN NoMsg
                   ELSE Msg(IF operator = "exists" THEN " not found"
                                                   ELSE " should not exist", path),
                   assertion)
  ELSE IF operator \in {"==", "equals"} THEN
    LET expected_value == normalize_expected(expected)
        passed == py_eq(actual, expected_value)
    IN build_result("json_path", passed, expected_value, actual,
                    IF passed THEN NoMsg ELSE Msg(" != ", path), assertion)
  ELSE IF operator = "not_null" THEN
    LET passed == any_not_empty(matches) IN
      build_result("json_path", passed,
                   IF expected.t # "none" THEN expected ELSE VStr(<<"not_null">>),
                   actual,
                   IF passed THEN NoMsg ELSE Msg(" is null or empty", path), assertion)
  ELSE IF operator \in JsonNumericOperators THEN
    LET expected_number == to_number(expected) IN
      IF ~expected_number.ok
        THEN build_result("json_path", FALSE, expected, actual,
                          Msg("expected number required for comparison", ""),
                          assertion)
      ELSE LET actual_number == IF is_number(actual) THEN Num(number_of(actual))
                                ELSE to_number(VStr(py_str(actual)))
           IN IF ~actual_number.ok
                THEN build_result("json_path", FALSE, float_value(expected_number.v),
                                  actual, Msg("actual value is not numeric", ""),
                                  assertion)
                ELSE LET passed == compare_numeric(operator, actual_number.v,
                                                   expected_number.v)
                     IN build_result("json_path", passed,
                                     float_value(expected_number.v), actual,
                                     IF passed THEN NoMsg ELSE Msg(" failed", path),
                                     assertion)
  ELSE IF operator \in {"contains", "not_contains"} THEN
    LET needle == expected_text(expected)
        haystack == IF actual.t = "none" THEN <<>> ELSE py_str(actual)
        passed == IF operator = "contains" THEN contains(haystack, needle)
                                           ELSE ~contains(haystack, needle)
    IN build_result("json_path", passed, expected, actual,
                    IF passed THEN NoMsg ELSE Msg(" failed", path), assertion)
  ELSE build_result("json_path", FALSE, expected, actual,
                    Msg("unsupported operator: ", operator), assertion)

\* AssertionEngine._run_json_path
run_json_path(response_result, assertion) ==
  LET operator == assertion.operator
      path == assertion.path
      expected == assertion.expected
  IN
  IF response_result.kind # "map"
    THEN build_result("json_path", FALSE, expected, VNone,
                      Msg("json_path error: ", ""), assertion)
  ELSE IF response_result.response_json.t = "none"
    THEN build_result("json_path", FALSE, expected, VNone,
                      Msg("response_json is None", ""), assertion)
  ELSE LET found == json_find(path, response_result.response_json) IN
    IF found.raised
      THEN build_result("json_path", FALSE, expected, VNone,
                        Msg("json_path error: ", ""), assertion)
      ELSE json_path_verdict(operator, path, expected, found.matches, assertion)

\* ---------------------------------------------------------------- _run_single
\* the dispatch of lines 20-38; VerdictRaised when the handler raises
dispatch(response_result, assertion) ==
  LET assertion_type == assertion.type IN
  IF assertion_type = "status_code" THEN run_status_code(response_result, assertion)
  ELSE IF assertion_type = "response_body"
    THEN run_response_body(response_result, assertion)
  ELSE IF assertion_type = "json_path" THEN run_json_path(response_result, assertion)
  ELSE IF assertion_type = "header" THEN run_header(response_result, assertion)
  ELSE IF assertion_type = "response_time"
    THEN run_response_time(response_result, assertion)
  ELSE build_result(assertion_type, FALSE, assertion.expected, VNone,
                    Msg("unsupported assertion type", ""), assertion)

\* AssertionEngine._run_single: assertion.get raises on a spec that is not a
\* mapping, in the try block and again in the except block
run_single(response_result, assertion) ==
  IF assertion.kind # "map" THEN VerdictRaised
  ELSE LET verdict == dispatch(response_result, assertion) IN
    IF verdict.raised
      THEN build_result(assertion.type, FALSE, assertion.expected, VNone,
                        Msg("exception: ", ""), assertion)
      ELSE verdict

\* AssertionEngine.run_assertions: [raised, items]; an exception of
\* _run_single leaves the loop and the call
RECURSIVE run_assertions(_, _)
run_assertions(response_result, assertions) ==
  IF assertions = <<>> THEN [raised |-> FALSE, items |-> <<>>]
  ELSE LET first == run_single(response_result, Head(assertions)) IN
    IF first.raised THEN [raised |-> TRUE, items |-> <<>>]
    ELSE LET rest == run_assertions(response_result, Tail(assertions)) IN
      IF rest.raised THEN rest
      ELSE [raised |-> FALSE, items |-> <<first>> \o rest.items]

\* ----------------------------------------------------- the cases of a batch
\* Every case of a batch is a mapping.  The transport answers case 2 with a
\* failure (success False) and the others with success; the engine returns
\* one PASS verdict for case 1 and a PASS and a FAIL verdict for case 3.
PassVerdict == [kind |-> "map", result |-> "PASS"]
FailVerdict == [kind |-> "map", result |-> "FAIL"]

batch_transport(c) ==
  IF c = 2 THEN Transport(FALSE, Response("map", "False", "Timeout"))
           ELSE Transport(FALSE, Response("map", "True", ""))

batch_engine(c) ==
  IF c = 1 THEN Engine(FALSE, Verdicts(TRUE, <<PassVerdict>>))
  ELSE IF c = 2 THEN Engine(FALSE, Verdicts(TRUE, <<>>))
  ELSE Engine(FALSE, Verdicts(TRUE, <<PassVerdict, FailVerdict>>))

case_result(c) ==
  run_single_case("BatchThreadExecutorError", Case("map", c),
                  batch_transport(c), batch_engine(c))

\* --------------------------------------------------------------- helpers
max0(n) == IF n < 0 THEN 0 ELSE n

RangeSeq(n) == [i \in 1..n |-> i]

\* QThreadPool with setMaxThreadCount(max_workers): a queued task gets a
\* thread only while fewer than max_workers tasks occupy one.
PoolBusy == Cardinality({c \in CaseIds :
               pc[c] \notin {"none", "queued", "exited", "raised"}})

\* cancel() that forgets to clear the pending queue
cancel_pending_kept(p) == p

\* self._pending.clear()
cancel_pending(p) == <<>>

\* the condition of line 86 that ends the run
finish_condition == completed >= total \/ (canceled /\ active = 0)

\* ------------------------------------------------------------------ Init
\* no call of _run_single_case under observation
CaseIdle ==
  /\ caseIn = Case("map", 1)
  /\ transportIn = Transport(FALSE, NoResponse)
  /\ engineIn = Engine(FALSE, NoVerdicts)
  /\ caseOut = NoResult
  /\ casePc = "idle"

\* no list returned by run_assertions (yet)
NoVerdictList == [raised |-> TRUE, items |-> <<>>]

\* no call of _run_single or run_assertions under observation
AssertIdle ==
  /\ responseIn = NoResponse
  /\ specIn = ASpec("map", "None", "None", VNone, "None", VNone, VNone)
  /\ verdictOut = VerdictRaised
  /\ assertPc = "idle"
  /\ specsIn = <<>>
  /\ verdictsOut = NoVerdictList

\* no call of run_cases under observation
RunIdle ==
  /\ rcCases = <<>>
  /\ rcMode = "none"
  /\ rcTask = <<>>
  /\ rcResults = <<>>
  /\ rcPc = "idle"

\* ApiTestController.__init__ (lines 27-33)
CtlIdle ==
  /\ batch_running = FALSE
  /\ batch_executor = "None"
  /\ batch_canceled = FALSE
  /\ suite_name = "None"
  /\ suite_on_finished = "None"
  /\ ctlPc = <<>>
  /\ callbackLog = <<>>
  /\ exportLog = <<>>
  /\ slotRuns = 0
  /\ handled = {}
  /\ errorLog = <<>>
  /\ runCalls = 0
  /\ ignoredCall = FALSE

BatchInit ==
  /\ max_workers \in 1..MaxWorkers
  /\ results = <<>>
  /\ total = 0
  /\ completed = 0
  /\ pending = <<>>
  /\ active = 0
  /\ canceled = FALSE
  /\ lock = NoThread
  /\ pc = [t \in Threads |-> IF t = MainThread THEN "idle" ELSE "none"]
  /\ lcase = [t \in Threads |-> 0]
  /\ ltmp = [t \in Threads |-> 0]
  /\ wres = [c \in CaseIds |-> NoResult]
  /\ started = FALSE
  /\ cancels = 0
  /\ finishedLog = <<>>
  /\ progressLog = <<>>

Init == BatchInit /\ CaseIdle /\ AssertIdle /\ RunIdle /\ CtlIdle

\* a start() that returns on an empty case list without emitting finished
start_silent(n) ==
  /\ pc[MainThread] = "idle"
  /\ ~started
  /\ started' = TRUE
  /\ results' = <<>>
  /\ total' = n
  /\ completed' = 0
  /\ pending' = RangeSeq(n)
  /\ active' = 0
  /\ canceled' = FALSE
  /\ pc' = [pc EXCEPT ![MainThread] = IF n = 0 THEN "done" ELSE "sn_check"]
  /\ UNCHANGED <<max_workers, lock, lcase, ltmp, wres, cancels, finishedLog,
                 progressLog>>
  /\ UNCHANGED <<caseVars, assertVars, runVars>>

\* ------------------------------------------------- BatchThreadExecutor.start
\* start(cases) with cases = <<1, ..., n>>: lines 53-64 up to the entry of
\* _start_next.  No task of this run exists yet, so the resets are one step.
start(n) ==
  /\ pc[MainThread] = "idle"
  /\ ~started
  /\ started' = TRUE
  /\ results' = <<>>
  /\ total' = n
  /\ completed' = 0
  /\ pending' = RangeSeq(n)
  /\ active' = 0
  /\ canceled' = FALSE
  /\ IF n = 0
       THEN /\ finishedLog' = Append(finishedLog, <<>>)
            /\ pc' = [pc EXCEPT ![MainThread] = "done"]
       ELSE /\ finishedLog' = finishedLog
            /\ pc' = [pc EXCEPT ![MainThread] = "sn_check"]
  /\ UNCHANGED <<max_workers, lock, lcase, ltmp, wres, cancels, progressLog>>
  /\ UNCHANGED <<caseVars, assertVars, runVars>>

\* ------------------------------------------- BatchThreadExecutor._start_next
\* Executed by thread t: the caller's thread inside start() (no lock), or a
\* pool thread inside _on_case_done (holding the lock).

\* line 90: the loop condition
sn_check(t) ==
  /\ pc[t] = "sn_check"
  /\ IF active < max_workers /\ pending # <<>>
       THEN pc' = [pc EXCEPT ![t] = "sn_pop"]
       ELSE pc' = [pc EXCEPT ![t] = IF t = MainThread THEN "done" ELSE "fin"]
  /\ UNCHANGED <<max_workers, results, total, completed, pending, active, canceled,
                 lock, lcase, ltmp, wres, started, cancels, finishedLog, progressLog>>
  /\ UNCHANGED <<caseVars, assertVars, runVars>>

\* line 91: case = self._pending.pop(0); IndexError when another thread
\* emptied the list after the loop condition was evaluated.  The exception
\* leaves start() (thread 0) or leaves the `with` block, releasing the lock,
\* and ends the pool task.
sn_pop(t) ==
  /\ pc[t] = "sn_pop"
  /\ IF pending # <<>>
       THEN /\ lcase' = [lcase EXCEPT ![t] = Head(pending)]
            /\ pending' = Tail(pending)
            /\ pc' = [pc EXCEPT ![t] = "sn_load"]
            /\ lock' = lock
       ELSE /\ pc' = [pc EXCEPT ![t] = "raised"]
            /\ lock' = IF lock = t THEN NoThread ELSE lock
            /\ UNCHANGED <<lcase, pending>>
  /\ UNCHANGED <<max_workers, results, total, completed, active, canceled,
                 ltmp, wres, started, cancels, finishedLog, progressLog>>
  /\ UNCHANGED <<caseVars, assertVars, runVars>>

\* lines 92-93: the task is built, then self._active += 1 reads _active ...
sn_load(t) ==
  /\ pc[t] = "sn_load"
  /\ ltmp' = [ltmp EXCEPT ![t] = active]
  /\ pc' = [pc EXCEPT ![t] = "sn_store"]
  /\ UNCHANGED <<max_workers, results, total, completed, pending, active, canceled,
                 lock, lcase, wres, started, cancels, finishedLog, progressLog>>
  /\ UNCHANGED <<caseVars, assertVars, runVars>>

\* ... and stores the sum
sn_store(t) ==
  /\ pc[t] = "sn_store"
  /\ active' = ltmp[t] + 1
  /\ pc' = [pc EXCEPT ![t] = "sn_start"]
  /\ UNCHANGED <<max_workers, results, total, completed, pending, canceled,
                 lock, lcase, ltmp, wres, started, cancels, finishedLog, progressLog>>
  /\ UNCHANGED <<caseVars, assertVars, runVars>>

\* line 94: pool.start(task) queues the task of lcase[t]
sn_start(t) ==
  /\ pc[t] = "sn_start"
  /\ pc' = [pc EXCEPT ![t] = "sn_check", ![lcase[t]] = "queued"]
  /\ UNCHANGED <<max_workers, results, total, completed, pending, active, canceled,
                 lock, lcase, ltmp, wres, started, cancels, finishedLog, progressLog>>
  /\ UNCHANGED <<caseVars, assertVars, runVars>>

\* a runnable that takes the lock before it runs its case
pool_run_locked(c) ==
  /\ pc[c] = "queued"
  /\ PoolBusy < max_workers
  /\ lock = NoThread
  /\ lock' = c
  /\ pc' = [pc EXCEPT ![c] = "running"]
  /\ UNCHANGED <<max_workers, results, total, completed, pending, active, canceled,
                 lcase, ltmp, wres, started, cancels, finishedLog, progressLog>>
  /\ UNCHANGED <<caseVars, assertVars, runVars>>

\* --------------------------------------------------------- _CaseRunnable.run
\* the pool gives the queued task a thread: runner(case) begins
pool_run(c) ==
  /\ pc[c] = "queued"
  /\ PoolBusy < max_workers
  /\ pc' = [pc EXCEPT ![c] = "running"]
  /\ UNCHANGED <<max_workers, results, total, completed, pending, active, canceled,
                 lock, lcase, ltmp, wres, started, cancels, finishedLog, progressLog>>
  /\ UNCHANGED <<caseVars, assertVars, runVars>>

\* line 17: result = self.runner(self.case) returns
case_run(c) ==
  /\ pc[c] = "running"
  /\ wres' = [wres EXCEPT ![c] = case_result(c)]
  /\ pc' = [pc EXCEPT ![c] = "ready"]
  /\ UNCHANGED <<max_workers, results, total, completed, pending, active, canceled,
                 lock, lcase, ltmp, started, cancels, finishedLog, progressLog>>
  /\ UNCHANGED <<caseVars, assertVars, runVars>>

\* ------------------------------------------ BatchThreadExecutor._on_case_done
\* lines 78-81: take the lock, append, count, and read _active for line 81
on_case_done_enter(c) ==
  /\ pc[c] = "ready"
  /\ lock = NoThread
  /\ lock' = c
  /\ results' = Append(results, wres[c])
  /\ completed' = completed + 1
  /\ ltmp' = [ltmp EXCEPT ![c] = active]
  /\ pc' = [pc EXCEPT ![c] = "dec_store"]
  /\ UNCHANGED <<max_workers, total, pending, active, canceled,
                 lcase, wres, started, cancels, finishedLog, progressLog>>
  /\ UNCHANGED <<caseVars, assertVars, runVars>>

\* a callback that forgets to emit progress
on_case_done_dec_silent(c) ==
  /\ pc[c] = "dec_store"
  /\ active' = max0(ltmp[c] - 1)
  /\ pc' = [pc EXCEPT ![c] = IF ~canceled THEN "sn_check" ELSE "fin"]
  /\ UNCHANGED <<max_workers, results, total, completed, pending, canceled,
                 lock, lcase, ltmp, wres, started, cancels, finishedLog,
                 progressLog>>
  /\ UNCHANGED <<caseVars, assertVars, runVars>>

\* lines 81-85: store max(0, _active - 1), emit progress, refill unless canceled
on_case_done_dec(c) ==
  /\ pc[c] = "dec_store"
  /\ active' = max0(ltmp[c] - 1)
  /\ progressLog' = Append(progressLog, <<completed, total>>)
  /\ pc' = [pc EXCEPT ![c] = IF ~canceled THEN "sn_check" ELSE "fin"]
  /\ UNCHANGED <<max_workers, results, total, completed, pending, canceled,
                 lock, lcase, ltmp, wres, started, cancels, finishedLog>>
  /\ UNCHANGED <<caseVars, assertVars, runVars>>

\* lines 86-87: emit finished when the run is over; leave the lock
on_case_done_fin(c) ==
  /\ pc[c] = "fin"
  /\ finishedLog' = IF finish_condition THEN Append(finishedLog, results)
                                        ELSE finishedLog
  /\ lock' = NoThread
  /\ pc' = [pc EXCEPT ![c] = "exited"]
  /\ UNCHANGED <<max_workers, results, total, completed, pending, active, canceled,
                 lcase, ltmp, wres, started, cancels, progressLog>>
  /\ UNCHANGED <<caseVars, assertVars, runVars>>

\* ------------------------------------------------ BatchThreadExecutor.cancel
\* Called on the caller's thread (ApiTestController.cancel_suite, which needs
\* the executor that run_suite_async creates right before start()), hence
\* after start() has returned or raised and never while it is running.
cancel ==
  /\ started
  /\ pc[MainThread] \in {"done", "raised"}
  /\ cancels < MaxCancels
  /\ lock = NoThread
  /\ cancels' = cancels + 1
  /\ canceled' = TRUE
  /\ pending' = cancel_pending(pending)
  /\ finishedLog' = IF active = 0 THEN Append(finishedLog, results) ELSE finishedLog
  /\ UNCHANGED <<max_workers, results, total, completed, active, lock, pc, lcase,
                 ltmp, wres, started, progressLog>>
  /\ UNCHANGED <<caseVars, assertVars, runVars>>

\* ------------------------------------------------------------------ Next
StartCall == (\E n \in 0..MaxCases : start(n)) /\ UNCHANGED ctlVars
StartNextCheck == (\E t \in Threads : sn_check(t)) /\ UNCHANGED ctlVars
StartNextPop == (\E t \in Threads : sn_pop(t)) /\ UNCHANGED ctlVars
StartNextLoad == (\E t \in Threads : sn_load(t)) /\ UNCHANGED ctlVars
StartNextStore == (\E t \in Threads : sn_store(t)) /\ UNCHANGED ctlVars
StartNextDispatch == (\E t \in Threads : sn_start(t)) /\ UNCHANGED ctlVars
PoolRun == (\E c \in CaseIds : pool_run(c)) /\ UNCHANGED ctlVars
CaseRun == (\E c \in CaseIds : case_run(c)) /\ UNCHANGED ctlVars
CaseDoneEnter == (\E c \in CaseIds : on_case_done_enter(c)) /\ UNCHANGED ctlVars
CaseDoneDec == (\E c \in CaseIds : on_case_done_dec(c)) /\ UNCHANGED ctlVars
CaseDoneFin == (\E c \in CaseIds : on_case_done_fin(c)) /\ UNCHANGED ctlVars
Cancel == (cancel) /\ UNCHANGED ctlVars

Next ==
  \/ StartCall
  \/ StartNextCheck
  \/ StartNextPop
  \/ StartNextLoad
  \/ StartNextStore
  \/ StartNextDispatch
  \/ PoolRun
  \/ CaseRun
  \/ CaseDoneEnter
  \/ CaseDoneDec
  \/ CaseDoneFin
  \/ Cancel

Spec == Init /\ [][Next]_vars

\* ------------------------------------------------------------- scheduling
\* The steps of thread t: the caller's thread inside start(), or the pool
\* thread of task t from its scheduling to the end of its callback.
ThreadStep(t) ==
  \/ sn_check(t) \/ sn_pop(t) \/ sn_load(t) \/ sn_store(t) \/ sn_start(t)
  \/ (t \in CaseIds /\ (\/ pool_run(t) \/ case_run(t) \/ on_case_done_enter(t)
                         \/ on_case_done_dec(t) \/ on_case_done_fin(t)))

\* Every thread that can go on eventually does: the pool schedules every
\* task handed to it, every transport call returns or raises, the lock is
\* granted to a waiting thread.  Nothing obliges the user to call cancel().
SpecLive == Spec /\ \A t \in Threads : WF_vars(ThreadStep(t) /\ UNCHANGED ctlVars)

\* ---------------------------------------------- the case executor on its own
\* _run_single_case applied to every combination of a case, a transport
\* behaviour and an engine behaviour drawn from the sets below.
MaxVerdicts == 2

SuccessValues == {"True", "False", "None", "other"}

ResponseInputs ==
  {NoResponse} \cup
  {Response("map", sv, IF sv = "False" THEN "Timeout" ELSE "") : sv \in SuccessValues}

TransportInputs ==
  {Transport(TRUE, NoResponse)} \cup {Transport(FALSE, r) : r \in ResponseInputs}

VerdictInputs ==
  {PassVerdict, FailVerdict, [kind |-> "map", result |-> "None"],
   [kind |-> "nonmap", result |-> "None"]}

VerdictSeqs == UNION {[1..n -> VerdictInputs] : n \in 0..MaxVerdicts}

EngineInputs ==
  {Engine(TRUE, NoVerdicts), Engine(FALSE, Verdicts(FALSE, <<>>))} \cup
  {Engine(FALSE, Verdicts(TRUE, items)) : items \in VerdictSeqs}

CaseInputs == {Case("map", 1), Case("nonmap", 0)}

CaseInit ==
  /\ BatchInit
  /\ AssertIdle
  /\ RunIdle
  /\ CtlIdle
  /\ caseIn \in CaseInputs
  /\ transportIn \in TransportInputs
  /\ engineIn \in EngineInputs
  /\ caseOut = NoResult
  /\ casePc = "input"

\* BatchExecutor._run_single_case(case)
BatchExecutorRun ==
  /\ casePc = "input"
  /\ caseOut' = run_single_case("BatchExecutorError", caseIn, transportIn, engineIn)
  /\ casePc' = "done_seq"
  /\ UNCHANGED <<batchVars, assertVars, runVars, ctlVars, caseIn, transportIn, engineIn>>

\* BatchThreadExecutor._run_single_case(case)
BatchThreadExecutorRun ==
  /\ casePc = "input"
  /\ caseOut' = run_single_case("BatchThreadExecutorError", caseIn, transportIn,
                                engineIn)
  /\ casePc' = "done_thread"
  /\ UNCHANGED <<batchVars, assertVars, runVars, ctlVars, caseIn, transportIn, engineIn>>

CaseNext == BatchExecutorRun \/ BatchThreadExecutorRun

SpecCase == CaseInit /\ [][CaseNext]_vars

CaseDone == casePc \in {"done_seq", "done_thread"}

\* ------------------------------------------- the assertion engine on its own
\* _run_single applied to every pair of a response and a spec drawn from the
\* sets below.
Text5 == <<"5">>
TextA == <<"a">>
TextA5 == <<"a", "5">>

NumberInputs == {VNone, VInt(5), VStr(Text5)}

TextInputs == {VNone, VStr(TextA5), VInt(5)}

JsonInputs ==
  {NoJson,
   JsonDoc("dict", VInt(5), <<VNone, VStr(TextA)>>, <<"{", "5", "}">>),
   JsonDoc("dict", VStr(<<>>), <<>>, <<"{", "}">>)}

HeaderInputs ==
  {NoHeaders, Headers("dict", <<<< <<"X">>, VStr(TextA5) >>>>), Headers("nonmap", <<>>)}

AssertResponseInputs ==
  {NoResponse} \cup
  {EngineResponse("map", n, n, t, j, h) :
     n \in NumberInputs, t \in TextInputs, j \in JsonInputs, h \in HeaderInputs}

ExpectedInputs ==
  {VNone, VInt(5), VStr(Text5), VStr(TextA), VStr(<<"1", "~", "9">>),
   VStr(<<"9", "~", "1">>), VStr(<<"-", "1", "~", "9">>), VStr(<<"(">>)}

NumericFieldOperators ==
  NumericOperators \cup {"between", "bogus", "None", "unhashable"}

BodyOperators ==
  {"contains", "not_contains", "starts_with", "ends_with", "matches_regex",
   "bogus", "None", "unhashable"}

HeaderOperators ==
  {"contains", "not_contains", "==", "!=", "exists", "not_exists",
   "bogus", "None", "unhashable"}

JsonOperators ==
  {"exists", "not_exists", "==", "equals", "not_null", ">", ">=", "<", "<=", "!=",
   "contains", "not_contains", "bogus", "None", "unhashable"}

PathInputs == {"$.x", "$.items", "$.items[*]", "$.missing", "$[", "None"}

HeaderNameInputs == {VNone, VStr(<<"x">>), VStr(<<"X">>)}

AssertSpecInputs ==
  {ASpec("nonmap", "None", "None", VNone, "None", VNone, VNone)}
  \cup {ASpec("map", ty, op, e, "None", VNone, VNone) :
          ty \in {"status_code", "response_time"}, op \in NumericFieldOperators,
          e \in ExpectedInputs}
  \cup {ASpec("map", "response_body", op, e, "None", VNone, VNone) :
          op \in BodyOperators, e \in ExpectedInputs}
  \cup {ASpec("map", "header", op, e, "None", h, VNone) :
          op \in HeaderOperators, e \in ExpectedInputs, h \in HeaderNameInputs}
  \cup {ASpec("map", "header", "exists", VNone, "None", VNone, h) :
          h \in HeaderNameInputs}
  \cup {ASpec("map", "json_path", op, e, path, VNone, VNone) :
          op \in JsonOperators, e \in ExpectedInputs, path \in PathInputs}
  \cup {ASpec("map", ty, "==", e, "None", VNone, VNone) :
          ty \in {"bogus", "None"}, e \in ExpectedInputs}

AssertInit ==
  /\ BatchInit
  /\ CaseIdle
  /\ RunIdle
  /\ CtlIdle
  /\ responseIn \in AssertResponseInputs
  /\ specIn \in AssertSpecInputs
  /\ verdictOut = VerdictRaised
  /\ assertPc = "input"
  /\ specsIn = <<>>
  /\ verdictsOut = NoVerdictList

\* AssertionEngine._run_single(response_result, assertion)
RunSingle ==
  /\ assertPc = "input"
  /\ verdictOut' = run_single(responseIn, specIn)
  /\ assertPc' = "done"
  /\ UNCHANGED <<batchVars, caseVars, runVars, ctlVars, responseIn, specIn, specsIn,
               verdictsOut>>

AssertNext == RunSingle

SpecAssert == AssertInit /\ [][AssertNext]_vars

\* --------------------------------------------------- run_assertions on its own
\* run_assertions applied to a response and every sequence of at most
\* MaxSpecs specs: a spec that passes, one that fails, one whose evaluation
\* raises inside the engine (a text status code compared with ">"), one that
\* is not a mapping, and a json_path spec.
MaxSpecs == 2

ListSpecInputs ==
  {ASpec("map", "status_code", "==", VInt(5), "None", VNone, VNone),
   ASpec("map", "status_code", ">", VStr(TextA), "None", VNone, VNone),
   ASpec("map", "status_code", ">", VInt(5), "None", VNone, VNone),
   ASpec("map", "json_path", "exists", VNone, "$.x", VNone, VNone),
   ASpec("nonmap", "None", "None", VNone, "None", VNone, VNone)}

ListResponseInputs ==
  {NoResponse,
   EngineResponse("map", VInt(5), VInt(5), VStr(TextA5),
                  JsonDoc("dict", VInt(5), <<>>, <<"{", "5", "}">>), NoHeaders),
   EngineResponse("map", VStr(Text5), VNone, VNone, NoJson, NoHeaders)}

SpecSeqs == UNION {[1..n -> ListSpecInputs] : n \in 0..MaxSpecs}

ListInit ==
  /\ BatchInit
  /\ CaseIdle
  /\ RunIdle
  /\ CtlIdle
  /\ responseIn \in ListResponseInputs
  /\ specIn = ASpec("map", "None", "None", VNone, "None", VNone, VNone)
  /\ verdictOut = VerdictRaised
  /\ specsIn \in SpecSeqs
  /\ verdictsOut = NoVerdictList
  /\ assertPc = "input_list"

\* AssertionEngine.run_assertions(response_result, assertions)
RunAssertions ==
  /\ assertPc = "input_list"
  /\ verdictsOut' = run_assertions(responseIn, specsIn)
  /\ assertPc' = "done_list"
  /\ UNCHANGED <<batchVars, caseVars, runVars, ctlVars, responseIn, specIn, verdictOut,
               specsIn>>

ListNext == RunAssertions

SpecList == ListInit /\ [][ListNext]_vars

\* -------------------------------------------------------- run_cases on its own
\* BatchExecutor.run_cases and BatchThreadExecutor.run_cases applied to every
\* sequence of at most MaxRunCases cases.  A case is named by what happens
\* when it runs: "pass", "fail" (the transport answers success False),
\* "transport_raises", or "nonmap" (the case is not a mapping).  The case at
\* position i carries case_id i.
MaxRunCases == 3

RunBehaviours == {"pass", "fail", "transport_raises", "nonmap"}

RunCaseSeqs == UNION {[1..n -> RunBehaviours] : n \in 0..MaxRunCases}

\* self._run_single_case(case) for the case at position i
rc_result(err_type, i, behaviour) ==
  run_single_case(err_type,
                  Case(IF behaviour = "nonmap" THEN "nonmap" ELSE "map", i),
                  CASE behaviour = "transport_raises" -> Transport(TRUE, NoResponse)
                    [] behaviour = "fail" ->
                         Transport(FALSE, Response("map", "False", "Timeout"))
                    [] OTHER -> Transport(FALSE, Response("map", "True", "")),
                  Engine(FALSE, Verdicts(TRUE, <<PassVerdict>>)))

RunInit ==
  /\ BatchInit
  /\ CaseIdle
  /\ AssertIdle
  /\ CtlIdle
  /\ rcCases \in RunCaseSeqs
  /\ rcMode \in {"seq", "pool"}
  /\ rcTask = [i \in 1..Len(rcCases) |-> "none"]
  /\ rcResults = <<>>
  /\ rcPc = "loop"

\* BatchExecutor.run_cases, one turn of the loop of lines 13-14, or line 15
seq_step ==
  /\ rcMode = "seq"
  /\ rcPc = "loop"
  /\ LET i == Len(rcResults) + 1 IN
       IF i > Len(rcCases)
         THEN rcPc' = "returned" /\ rcResults' = rcResults
         ELSE LET r == rc_result("BatchExecutorError", i, rcCases[i]) IN
           IF r.raised THEN rcPc' = "raised" /\ rcResults' = rcResults
                       ELSE rcPc' = "loop" /\ rcResults' = Append(rcResults, r)
  /\ UNCHANGED <<rcCases, rcMode, rcTask>>

\* BatchThreadExecutor.run_cases, one turn of the loop of lines 46-48
\* (pool.start(task)), or the loop's end and the call of waitForDone
pool_submit ==
  /\ rcMode = "pool"
  /\ rcPc = "loop"
  /\ LET waiting == {i \in 1..Len(rcCases) : rcTask[i] = "none"} IN
       IF waiting = {}
         THEN rcPc' = "wait" /\ rcTask' = rcTask
         ELSE /\ rcPc' = "loop"
              /\ rcTask' = [rcTask EXCEPT
                             ![CHOOSE i \in waiting : \A j \in waiting : i <= j] = "queued"]
  /\ UNCHANGED <<rcCases, rcMode, rcResults>>

\* the pool gives a thread to a queued task (setMaxThreadCount, line 40)
pool_task_run(i) ==
  /\ rcMode = "pool"
  /\ i \in 1..Len(rcCases)
  /\ rcTask[i] = "queued"
  /\ Cardinality({j \in 1..Len(rcCases) : rcTask[j] = "running"}) < max_workers
  /\ rcTask' = [rcTask EXCEPT ![i] = "running"]
  /\ UNCHANGED <<rcCases, rcMode, rcResults, rcPc>>

\* _CaseRunnable.run: runner(case), then on_done(result) appending under the
\* local lock; an exception of runner leaves run() before on_done
pool_task_done(i) ==
  /\ rcMode = "pool"
  /\ i \in 1..Len(rcCases)
  /\ rcTask[i] = "running"
  /\ LET r == rc_result("BatchThreadExecutorError", i, rcCases[i]) IN
       IF r.raised THEN /\ rcTask' = [rcTask EXCEPT ![i] = "died"]
                        /\ rcResults' = rcResults
                   ELSE /\ rcTask' = [rcTask EXCEPT ![i] = "done"]
                        /\ rcResults' = Append(rcResults, r)
  /\ UNCHANGED <<rcCases, rcMode, rcPc>>

\* pool.waitForDone() returns when no task is queued or running; line 50
pool_wait_done ==
  /\ rcMode = "pool"
  /\ rcPc = "wait"
  /\ \A i \in 1..Len(rcCases) : rcTask[i] \in {"done", "died"}
  /\ rcPc' = "returned"
  /\ UNCHANGED <<rcCases, rcMode, rcTask, rcResults>>

SeqStep == seq_step /\ UNCHANGED <<batchVars, caseVars, assertVars, ctlVars>>
PoolSubmit == pool_submit /\ UNCHANGED <<batchVars, caseVars, assertVars, ctlVars>>
PoolTaskRun ==
  (\E i \in 1..MaxRunCases : pool_task_run(i))
  /\ UNCHANGED <<batchVars, caseVars, assertVars, ctlVars>>
PoolTaskDone ==
  (\E i \in 1..MaxRunCases : pool_task_done(i))
  /\ UNCHANGED <<batchVars, caseVars, assertVars, ctlVars>>
PoolWaitDone == pool_wait_done /\ UNCHANGED <<batchVars, caseVars, assertVars, ctlVars>>

RunNext ==
  \/ SeqStep
  \/ PoolSubmit
  \/ PoolTaskRun
  \/ PoolTaskDone
  \/ PoolWaitDone

SpecRun == RunInit /\ [][RunNext]_vars

\* ------------------------------------------------------- ApiTestController
\* run_suite_async, _on_suite_finished and cancel_suite on the thread that
\* owns the controller (thread 0, running the event loop), driving one
\* BatchThreadExecutor whose tasks run on the pool threads.  The finished
\* signal is connected to the slot _on_suite_finished: an emission made on
\* thread 0 calls the slot at once, inside emit(); an emission made on a pool
\* thread is posted to thread 0 and the slot runs when thread 0 is back in
\* its event loop.  ctlPc is the stack of calls thread 0 is inside of.
MaxRunCalls == 1
MaxSuiteCases == 2

Frame(f, k) == [f |-> f, k |-> k]

Top == ctlPc[Len(ctlPc)]

Pop(stack) == SubSeq(stack, 1, Len(stack) - 1)

ReplaceTop(stack, frame) == Append(Pop(stack), frame)

\* what the on_finished argument does: not callable, a plain listener, or a
\* listener that calls cancel_suite()
Callbacks == {"None", "callback", "canceling"}

\* where run_suite_async fails before start(): suite.get of a suite that is
\* not a mapping (line 213), or executor.case_started of line 227, a signal
\* BatchThreadExecutor does not have, when on_case_started is callable
Faults == {"none", "suite", "hooks"}

\* the result of lines 235-241
Envelope ==
  [kind |-> "envelope", suite_name |-> "default_suite",
   summary |-> [total |-> 0, pass |-> 0, fail |-> 0], cases |-> 0,
   canceled |-> "absent", error |-> TRUE]

\* the result of lines 246-253 for the emitted list case_results
SuiteResult(case_results) ==
  [kind |-> "result",
   suite_name |-> IF suite_name = "None" THEN "default_suite" ELSE suite_name,
   summary |-> build_summary(case_results), cases |-> Len(case_results),
   canceled |-> IF batch_canceled THEN "True" ELSE "False", error |-> FALSE]

\* the stack after a call of the listener cb has begun
Invoke(cb, stack) ==
  IF cb = "canceling" THEN Append(stack, Frame("cancel_suite", 0)) ELSE stack

\* finished emissions posted to thread 0 and not yet delivered
Unhandled == {k \in 1..Len(finishedLog) : k \notin handled}

\* an except clause that forgets the callback
except_handler_silent(on_finished, at, stack) ==
  /\ batch_running' = FALSE
  /\ errorLog' = Append(errorLog, [on_finished |-> on_finished, at |-> at])
  /\ callbackLog' = callbackLog
  /\ ctlPc' = stack

\* lines 232-242: the except clause of run_suite_async
except_handler(on_finished, at, stack) ==
  /\ batch_running' = FALSE
  /\ errorLog' = Append(errorLog, [on_finished |-> on_finished, at |-> at])
  /\ callbackLog' = IF on_finished # "None" THEN Append(callbackLog, Envelope)
                                            ELSE callbackLog
  /\ ctlPc' = Invoke(on_finished, stack)

\* the user calls run_suite_async() from the event loop.  One executor is
\* followed: of the calls made while no run is in progress, only those made
\* before start() are taken, at most MaxRunCalls of them.
run_suite_async_call ==
  /\ ctlPc = <<>>
  /\ batch_running \/ (~started /\ runCalls < MaxRunCalls)
  /\ ctlPc' = <<Frame("run_suite_async", 0)>>
  /\ UNCHANGED <<batch_running, batch_executor, batch_canceled, suite_name,
                 suite_on_finished, callbackLog, exportLog, slotRuns, handled,
                 errorLog, runCalls, ignoredCall>>
  /\ UNCHANGED <<batchVars, caseVars, assertVars, runVars>>

\* a call during a run that starts over: it replaces the listener and
\* clears the canceled flag
run_suite_async_restart(on_finished) ==
  /\ ctlPc # <<>>
  /\ Top.f = "run_suite_async"
  /\ batch_running
  /\ suite_on_finished' = on_finished
  /\ batch_canceled' = FALSE
  /\ ctlPc' = Pop(ctlPc)
  /\ ignoredCall' = TRUE
  /\ UNCHANGED <<batch_running, batch_executor, suite_name, callbackLog,
                 exportLog, slotRuns, handled, errorLog, runCalls>>
  /\ UNCHANGED <<batchVars, caseVars, assertVars, runVars>>

\* lines 209-210: a call while a run is in progress returns at once
run_suite_async_busy(on_finished) ==
  /\ ctlPc # <<>>
  /\ Top.f = "run_suite_async"
  /\ batch_running
  /\ ctlPc' = Pop(ctlPc)
  /\ ignoredCall' = TRUE
  /\ UNCHANGED <<batch_running, batch_executor, batch_canceled, suite_name,
                 suite_on_finished, callbackLog, exportLog, slotRuns, handled,
                 errorLog, runCalls>>
  /\ UNCHANGED <<batchVars, caseVars, assertVars, runVars>>

\* lines 208-231 of a call made while no run is in progress, with a suite of
\* n cases, up to the entry of _start_next inside executor.start(cases); a
\* failure before start() runs the except clause in the same step, no other
\* thread being there yet.  start([]) emits finished on thread 0: the slot is
\* entered inside start().
run_suite_async(n, on_finished, fault) ==
  /\ ctlPc # <<>>
  /\ Top.f = "run_suite_async"
  /\ ~batch_running
  /\ runCalls' = runCalls + 1
  /\ CASE fault = "suite" ->
            /\ except_handler(on_finished, "suite", <<>>)
            /\ UNCHANGED <<batch_executor, batch_canceled, suite_name,
                           suite_on_finished, handled, slotRuns>>
            /\ UNCHANGED batchVars
       [] fault = "hooks" ->
            /\ batch_executor' = "executor"
            /\ batch_canceled' = FALSE
            /\ suite_name' = "suite"
            /\ suite_on_finished' = on_finished
            /\ except_handler(on_finished, "hooks", <<>>)
            /\ UNCHANGED <<handled, slotRuns>>
            /\ UNCHANGED batchVars
       [] OTHER ->
            /\ batch_running' = TRUE
            /\ batch_executor' = "executor"
            /\ batch_canceled' = FALSE
            /\ suite_name' = "suite"
            /\ suite_on_finished' = on_finished
            /\ start(n)
            /\ IF finishedLog' # finishedLog
                 THEN /\ ctlPc' = <<Frame("start", 0),
                                    Frame("slot", Len(finishedLog'))>>
                      /\ handled' = handled \cup {Len(finishedLog')}
                      /\ slotRuns' = slotRuns + 1
                 ELSE /\ ctlPc' = <<Frame("start", 0)>>
                      /\ UNCHANGED <<handled, slotRuns>>
            /\ UNCHANGED <<callbackLog, errorLog>>
  /\ UNCHANGED <<exportLog, ignoredCall>>
  /\ UNCHANGED <<caseVars, assertVars, runVars>>

\* executor.start(cases) returns, and run_suite_async with it
start_return ==
  /\ ctlPc # <<>>
  /\ Top.f = "start"
  /\ pc[MainThread] = "done"
  /\ ctlPc' = Pop(ctlPc)
  /\ UNCHANGED <<batch_running, batch_executor, batch_canceled, suite_name,
                 suite_on_finished, callbackLog, exportLog, slotRuns, handled,
                 errorLog, runCalls, ignoredCall>>
  /\ UNCHANGED <<batchVars, caseVars, assertVars, runVars>>

\* executor.start(cases) raises (the IndexError of line 91): lines 232-242
start_raised ==
  /\ ctlPc # <<>>
  /\ Top.f = "start"
  /\ pc[MainThread] = "raised"
  /\ except_handler(suite_on_finished, "start", Pop(ctlPc))
  /\ UNCHANGED <<batch_executor, batch_canceled, suite_name, suite_on_finished,
                 exportLog, slotRuns, handled, runCalls, ignoredCall>>
  /\ UNCHANGED <<batchVars, caseVars, assertVars, runVars>>

\* the event loop of thread 0 delivers the oldest posted finished emission:
\* _on_suite_finished is entered
deliver_finished ==
  /\ ctlPc = <<>>
  /\ Unhandled # {}
  /\ LET k == CHOOSE i \in Unhandled : \A j \in Unhandled : i <= j IN
       /\ ctlPc' = <<Frame("slot", k)>>
       /\ handled' = handled \cup {k}
  /\ slotRuns' = slotRuns + 1
  /\ UNCHANGED <<batch_running, batch_executor, batch_canceled, suite_name,
                 suite_on_finished, callbackLog, exportLog, errorLog, runCalls, ignoredCall>>
  /\ UNCHANGED <<batchVars, caseVars, assertVars, runVars>>

\* _on_suite_finished, lines 246-256: the result is built and exported.
\* export_json creates a directory and writes a file: it returns (ok) or
\* raises, and then the rest of the slot is not executed.
on_suite_finished_export(ok) ==
  /\ ctlPc # <<>>
  /\ Top.f = "slot"
  /\ IF ok
       THEN /\ exportLog' = Append(exportLog, SuiteResult(finishedLog[Top.k]))
            /\ ctlPc' = ReplaceTop(ctlPc, Frame("slot_callback", Top.k))
       ELSE /\ exportLog' = exportLog
            /\ ctlPc' = Pop(ctlPc)
  /\ UNCHANGED <<batch_running, batch_executor, batch_canceled, suite_name,
                 suite_on_finished, callbackLog, slotRuns, handled, errorLog,
                 runCalls, ignoredCall>>
  /\ UNCHANGED <<batchVars, caseVars, assertVars, runVars>>

\* _on_suite_finished, lines 257-258: the listener is called with the result
on_suite_finished_callback ==
  /\ ctlPc # <<>>
  /\ Top.f = "slot_callback"
  /\ callbackLog' = IF suite_on_finished # "None"
                      THEN Append(callbackLog, SuiteResult(finishedLog[Top.k]))
                      ELSE callbackLog
  /\ ctlPc' = Invoke(suite_on_finished,
                     ReplaceTop(ctlPc, Frame("slot_clear", Top.k)))
  /\ UNCHANGED <<batch_running, batch_executor, batch_canceled, suite_name,
                 suite_on_finished, exportLog, slotRuns, handled, errorLog,
                 runCalls, ignoredCall>>
  /\ UNCHANGED <<batchVars, caseVars, assertVars, runVars>>

\* _on_suite_finished, lines 259-264: the controller goes back to idle
on_suite_finished_clear ==
  /\ ctlPc # <<>>
  /\ Top.f = "slot_clear"
  /\ batch_executor' = "None"
  /\ batch_canceled' = FALSE
  /\ batch_running' = FALSE
  /\ suite_name' = "None"
  /\ suite_on_finished' = "None"
  /\ ctlPc' = Pop(ctlPc)
  /\ UNCHANGED <<callbackLog, exportLog, slotRuns, handled, errorLog, runCalls, ignoredCall>>
  /\ UNCHANGED <<batchVars, caseVars, assertVars, runVars>>

\* the user calls cancel_suite() from the event loop
cancel_suite_call ==
  /\ ctlPc = <<>>
  /\ cancels < MaxCancels
  /\ ctlPc' = <<Frame("cancel_suite", 0)>>
  /\ UNCHANGED <<batch_running, batch_executor, batch_canceled, suite_name,
                 suite_on_finished, callbackLog, exportLog, slotRuns, handled,
                 errorLog, runCalls, ignoredCall>>
  /\ UNCHANGED <<batchVars, caseVars, assertVars, runVars>>

\* cancel_suite, lines 267-269
cancel_suite ==
  /\ ctlPc # <<>>
  /\ Top.f = "cancel_suite"
  /\ IF batch_executor = "None"
       THEN /\ ctlPc' = Pop(ctlPc)
            /\ batch_canceled' = batch_canceled
       ELSE /\ ctlPc' = ReplaceTop(ctlPc, Frame("cancel", 0))
            /\ batch_canceled' = TRUE
  /\ UNCHANGED <<batch_running, batch_executor, suite_name, suite_on_finished,
                 callbackLog, exportLog, slotRuns, handled, errorLog, runCalls, ignoredCall>>
  /\ UNCHANGED <<batchVars, caseVars, assertVars, runVars>>

\* BatchThreadExecutor.cancel, lines 67-71, on thread 0: the lock is taken
\* (threading.Lock: the call waits while any thread holds it, thread 0
\* included), the flag set, the queue cleared, and finished emitted when no
\* case is active; the slot, when connected (line 230), is entered inside
\* emit(), with the lock held.
cancel_locked ==
  /\ ctlPc # <<>>
  /\ Top.f = "cancel"
  /\ lock = NoThread
  /\ lock' = MainThread
  /\ cancels' = cancels + 1
  /\ canceled' = TRUE
  /\ pending' = cancel_pending(pending)
  /\ IF active = 0 /\ started
       THEN /\ finishedLog' = Append(finishedLog, results)
            /\ handled' = handled \cup {Len(finishedLog) + 1}
            /\ slotRuns' = slotRuns + 1
            /\ ctlPc' = Append(ReplaceTop(ctlPc, Frame("cancel_exit", 0)),
                               Frame("slot", Len(finishedLog) + 1))
       ELSE /\ ctlPc' = ReplaceTop(ctlPc, Frame("cancel_exit", 0))
            /\ UNCHANGED <<finishedLog, handled, slotRuns>>
  /\ UNCHANGED <<max_workers, results, total, completed, active, pc, lcase,
                 ltmp, wres, started, progressLog>>
  /\ UNCHANGED <<batch_running, batch_executor, batch_canceled, suite_name,
                 suite_on_finished, callbackLog, exportLog, errorLog, runCalls, ignoredCall>>
  /\ UNCHANGED <<caseVars, assertVars, runVars>>

\* the end of `with self._lock:` in cancel(); cancel_suite returns
cancel_exit ==
  /\ ctlPc # <<>>
  /\ Top.f = "cancel_exit"
  /\ lock' = NoThread
  /\ ctlPc' = Pop(ctlPc)
  /\ UNCHANGED <<max_workers, results, total, completed, pending, active,
                 canceled, pc, lcase, ltmp, wres, started, cancels, finishedLog,
                 progressLog>>
  /\ UNCHANGED <<batch_running, batch_executor, batch_canceled, suite_name,
                 suite_on_finished, callbackLog, exportLog, slotRuns, handled,
                 errorLog, runCalls, ignoredCall>>
  /\ UNCHANGED <<caseVars, assertVars, runVars>>

RunSuiteAsyncCall == run_suite_async_call
RunSuiteAsync ==
  \E n \in 0..MaxSuiteCases, cb \in Callbacks, fault \in Faults :
    run_suite_async(n, cb, fault)
RunSuiteAsyncBusy == \E cb \in Callbacks : run_suite_async_busy(cb)
StartReturn == start_return
StartRaised == start_raised
DeliverFinished == deliver_finished
SuiteFinishedExport == \E ok \in BOOLEAN : on_suite_finished_export(ok)
SuiteFinishedCallback == on_suite_finished_callback
SuiteFinishedClear == on_suite_finished_clear
CancelSuiteCall == cancel_suite_call
CancelSuite == cancel_suite
CancelLocked == cancel_locked
CancelExit == cancel_exit

CtlNext ==
  \/ RunSuiteAsyncCall
  \/ RunSuiteAsync
  \/ RunSuiteAsyncBusy
  \/ StartReturn
  \/ StartRaised
  \/ DeliverFinished
  \/ SuiteFinishedExport
  \/ SuiteFinishedCallback
  \/ SuiteFinishedClear
  \/ CancelSuiteCall
  \/ CancelSuite
  \/ CancelLocked
  \/ CancelExit
  \/ StartNextCheck
  \/ StartNextPop
  \/ StartNextLoad
  \/ StartNextStore
  \/ StartNextDispatch
  \/ PoolRun
  \/ CaseRun
  \/ CaseDoneEnter
  \/ CaseDoneDec
  \/ CaseDoneFin

\* run_suite_async builds the executor with max_workers left at its default
\* of 5, more than the cases of a suite here: the largest pool
CtlInit == Init /\ max_workers = MaxWorkers

SpecCtl == CtlInit /\ [][CtlNext]_vars

\* Thread 0 goes on with the call it is inside of and, back in its event
\* loop, delivers the posted emissions; every pool thread that can go on
\* does.  Nothing obliges the user to call run_suite_async or cancel_suite.
Thread0Step ==
  \/ RunSuiteAsync \/ RunSuiteAsyncBusy
  \/ StartReturn \/ StartRaised \/ DeliverFinished \/ SuiteFinishedExport
  \/ SuiteFinishedCallback \/ SuiteFinishedClear \/ CancelSuite
  \/ CancelLocked \/ CancelExit

SpecCtlLive ==
  /\ SpecCtl
  /\ WF_vars(Thread0Step)
  /\ \A t \in Threads : WF_vars(ThreadStep(t) /\ UNCHANGED ctlVars)

\* ------------------------------------------------------------ observations
\* cases handed to the pool whose runner(case) has not returned yet
InFlight == {c \in CaseIds : pc[c] \in {"queued", "running"}}

\* tasks that were handed to the pool and have not left _on_case_done
Unfinished == {c \in CaseIds : pc[c] \notin {"none", "exited", "raised"}}

\* no thread is inside start(), a task or a callback
Quiescent == started /\ pc[MainThread] \in {"done", "raised"} /\ Unfinished = {}

\* ==================================================================== claims
\* ---- batch runner (Spec)

\* C1: for a call of start(cases) the finished signal is emitted exactly once:
\* never more than once, and once no thread is left inside the run it has
\* been emitted.
C1_FinishedExactlyOnce ==
  started => /\ Len(finishedLog) <= 1
             /\ (Quiescent => Len(finishedLog) = 1)

\* C2: the number of cases handed to a worker whose execution has not
\* completed never exceeds max_workers.
C2_AtMostWInFlight == Cardinality(InFlight) <= max_workers

\* C3: a finished emission of a canceled run happens when no worker is left
\* in flight and delivers exactly the results of the cases that completed:
\* each completed case once, no never-started case, as many entries as the
\* completed count, fewer than the total when a case was never started.
C3_CanceledDeliversCompleted ==
  [][(canceled' /\ Len(finishedLog') > Len(finishedLog)) =>
       LET d == finishedLog'[Len(finishedLog')] IN
         /\ Len(d) = completed'
         /\ \A c \in CaseIds : pc'[c] \in {"none", "exited", "raised"}
         /\ \A c \in CaseIds :
              Cardinality({j \in 1..Len(d) : d[j].case_id = c})
                = (IF pc'[c] = "none" THEN 0 ELSE 1)
         /\ ((\E c \in 1..total' : pc'[c] = "none") => Len(d) < total')
    ]_vars

\* C4: once cancel() has returned, the pending queue is and stays empty, no
\* case is handed to the pool any more, a case in flight goes on through its
\* execution and its callback, and the callback still appends its result.
C4_NoDispatchAfterCancel ==
  [][canceled =>
       /\ pending = <<>> /\ pending' = <<>>
       /\ \A c \in CaseIds :
            /\ pc'[c] = "queued" => pc[c] = "queued"
            /\ pc[c] = "queued" => pc'[c] \in {"queued", "running"}
            /\ pc[c] = "running" => pc'[c] \in {"running", "ready"}
            /\ pc[c] = "ready" => pc'[c] \in {"ready", "dec_store"}
            /\ (pc[c] = "ready" /\ pc'[c] = "dec_store")
                 => results' = Append(results, wres[c])
    ]_vars

\* a run canceled with a case still waiting: the case is never dispatched,
\* while a case that was in flight at cancel time is inside its callback with
\* its result appended
C4_Witness ==
  /\ canceled
  /\ pending = <<>>
  /\ \E c \in 1..total : pc[c] = "none"
  /\ \E c \in 1..total : /\ pc[c] = "dec_store"
                         /\ results[Len(results)] = wres[c]
                         /\ finishedLog = <<>>

\* C5: cancel() on a run that is already canceled changes none of pending,
\* active, completed, results and canceled, and emits no signal.
C5_SecondCancelNoOp ==
  [][(canceled /\ cancels' = cancels + 1) =>
       UNCHANGED <<pending, active, completed, results, canceled,
                   finishedLog, progressLog>>]_vars

ProgressEmitted ==
  {c \in CaseIds : pc[c] \notin {"none", "queued", "running", "ready", "dec_store"}}

\* C12: progress is emitted once per case completion, the k-th emission
\* carries (k, total), and no progress is emitted once a run that was not
\* canceled has emitted finished.
C12_ProgressCountsUp ==
  [][/\ Len(progressLog') = Cardinality(ProgressEmitted')
     /\ \A k \in 1..Len(progressLog') : progressLog'[k] = <<k, total'>>
     /\ (finishedLog # <<>> /\ ~canceled) => progressLog' = progressLog
    ]_vars

\* a run of three cases that was not canceled has emitted (1,3), (2,3), (3,3)
\* and then finished
C12_Witness ==
  /\ ~canceled
  /\ total = 3
  /\ progressLog = <<<<1, 3>>, <<2, 3>>, <<3, 3>>>>
  /\ Len(finishedLog) = 1
  /\ Quiescent

\* C13: start([]) emits finished at once with an empty list, whose summary
\* is {total: 0, pass: 0, fail: 0}; no worker is dispatched and no progress
\* is emitted.
C13_EmptyRunFinishesAtOnce ==
  (started /\ total = 0) =>
    /\ Len(finishedLog) >= 1
    /\ finishedLog[1] = <<>>
    /\ build_summary(finishedLog[1]) = [total |-> 0, pass |-> 0, fail |-> 0]
    /\ \A c \in CaseIds : pc[c] = "none"
    /\ progressLog = <<>>
    /\ pc[MainThread] = "done"

\* start([]) has returned and nothing else has happened
C13_Witness ==
  /\ started
  /\ total = 0
  /\ cancels = 0
  /\ finishedLog = <<<<>>>>

\* C14: under fair scheduling every run started on a non-empty case list
\* eventually emits finished, canceled or not.
C14_EventuallyFinished == (started /\ total > 0) ~> (finishedLog # <<>>)

\* the statements of _start_next that read or write _pending and _active
StartNextSteps == {"sn_check", "sn_pop", "sn_load", "sn_store"}

\* C24: every read-modify-write of the bookkeeping is done by a thread that
\* holds the lock, and no update of active is lost: an increment stores the
\* current value plus one, a decrement the current value minus one (not
\* below zero).
C24_BookkeepingUnderLock ==
  [][\A t \in Threads :
       /\ (pc[t] \in StartNextSteps /\ pc'[t] # pc[t]) => lock = t
       /\ (pc[t] = "sn_store" /\ pc'[t] # pc[t]) => active' = active + 1
       /\ (pc[t] = "dec_store" /\ pc'[t] # pc[t]) => active' = max0(active - 1)]_vars

\* the part of C24 about lost updates alone
C24_NoLostUpdate ==
  [][\A t \in Threads :
       /\ (pc[t] = "sn_store" /\ pc'[t] # pc[t]) => active' = active + 1
       /\ (pc[t] = "dec_store" /\ pc'[t] # pc[t]) => active' = max0(active - 1)]_vars

\* the positions of a pool thread inside `with self._lock:` of _on_case_done
CallbackSteps == {"dec_store", "sn_check", "sn_pop", "sn_load", "sn_store",
                  "sn_start", "fin"}

\* C25: the lock is never held across a transport call: whoever holds it is
\* a pool thread inside its completion callback, whose own case has already
\* produced its result; a thread executing its case does not hold the lock.
C25_NoTransportUnderLock ==
  /\ lock \in CaseIds \cup {NoThread}
  /\ \A c \in CaseIds :
       /\ lock = c => (pc[c] \in CallbackSteps /\ wres[c] = case_result(c))
       /\ pc[c] \in {"queued", "running", "ready"} => lock # c

\* one case is inside its transport call while the thread of another case
\* holds the lock for its bookkeeping
C25_Witness ==
  \E c, d \in CaseIds : c # d /\ pc[c] = "running" /\ lock = d /\ pc[d] \in CallbackSteps

\* no thread is inside a bookkeeping section: start() has returned or
\* raised, and no thread holds the lock
OutsideBookkeeping ==
  started /\ lock = NoThread /\ pc[MainThread] \in {"done", "raised"}

\* C26: outside a bookkeeping section, completed = len(results) and
\* 0 <= active <= max_workers; while the run is not canceled,
\* len(pending) + active + completed = total; once canceled, pending is empty
\* and active + completed <= total; no case is both pending and in flight,
\* and no case was dispatched twice (none has two results).
C26_BookkeepingInvariant ==
  OutsideBookkeeping =>
    /\ completed = Len(results)
    /\ 0 <= active /\ active <= max_workers
    /\ ~canceled => Len(pending) + active + completed = total
    /\ canceled => (pending = <<>> /\ active + completed <= total)
    /\ \A i \in 1..Len(pending) : pending[i] \notin InFlight
    /\ \A i, j \in 1..Len(results) :
         results[i].case_id = results[j].case_id => i = j

\* ---- case executor (SpecCase)

\* every verdict of a returned case is a PASS verdict
AllVerdictsPass(assertion_results) ==
  /\ assertion_results.iterable
  /\ \A i \in 1..Len(assertion_results.items) :
       /\ assertion_results.items[i].kind = "map"
       /\ assertion_results.items[i].result = "PASS"

\* C6: a returned case has result PASS if and only if its response has
\* success == true and every assertion verdict is PASS.
C6_PassIffSuccessAndAllPass ==
  (CaseDone /\ ~caseOut.raised) =>
    (caseOut.result = "PASS" <=>
       (caseOut.response.success = "True" /\ AllVerdictsPass(caseOut.assertion_results)))

\* C7: when the transport returns a response with success == false, the
\* engine is not invoked, assertion_results is [] and result is FAIL.
C7_FailedTransportSkipsEngine ==
  (CaseDone /\ caseIn.kind = "map" /\ ~transportIn.raises
     /\ transportIn.response.kind = "map" /\ transportIn.response.success = "False") =>
    /\ ~caseOut.raised
    /\ ~caseOut.engine_invoked
    /\ caseOut.assertion_results = NoVerdicts
    /\ caseOut.result = "FAIL"

\* C8: the case executor never raises: every call returns a case result.
C8_CaseExecutorNeverRaises == CaseDone => ~caseOut.raised

\* C23: when the transport or the assertion engine raises inside the case
\* executor, the call returns a case whose response has success false and
\* error_type "CaseExecutorError", whose result is FAIL, whose
\* assertion_results are empty, and which echoes the case's id.
C23_RaiseBecomesCaseExecutorError ==
  (CaseDone /\ caseIn.kind = "map"
     /\ (transportIn.raises \/ (caseOut.engine_invoked /\ engineIn.raises))) =>
    /\ ~caseOut.raised
    /\ caseOut.response.success = "False"
    /\ caseOut.response.error_type = "CaseExecutorError"
    /\ caseOut.result = "FAIL"
    /\ caseOut.assertion_results = NoVerdicts
    /\ caseOut.case_id = caseIn.case_id

\* ---- assertion engine (SpecAssert)

\* the five assertion types of _run_single
KnownTypes == {"status_code", "response_body", "json_path", "header", "response_time"}

\* the response is a mapping that holds the field the spec looks at: the
\* status code, the elapsed time, or a JSON body in which the path matches
SourcePresent ==
  /\ responseIn.kind = "map"
  /\ responseIn.headers.t # "nonmap"
  /\ specIn.type = "status_code" => responseIn.status_code.t # "none"
  /\ specIn.type = "response_time" => responseIn.elapsed_ms.t # "none"
  /\ specIn.type = "json_path" =>
       /\ responseIn.response_json.t # "none"
       /\ ~json_find(specIn.path, responseIn.response_json).raised
       /\ json_find(specIn.path, responseIn.response_json).matches # <<>>

\* C15: a spec of an unrecognized type gets a FAIL verdict, and a spec of a
\* known type with an unrecognized operator gets a FAIL verdict with the
\* message "unsupported operator: <operator>", whatever expected is, when
\* the source field of the response is present.
C15_UnsupportedIsFail ==
  (assertPc = "done" /\ specIn.kind = "map") =>
    /\ specIn.type \notin KnownTypes =>
         (~verdictOut.raised /\ verdictOut.result = "FAIL")
    /\ (specIn.type \in KnownTypes /\ specIn.operator = "bogus" /\ SourcePresent) =>
         /\ ~verdictOut.raised
         /\ verdictOut.result = "FAIL"
         /\ verdictOut.message = Msg("unsupported operator: ", "bogus")

\* the bounds a range text is written from, and the text "a~b"
RangeNumbers == {-1, 1, 9}

range_text(a, b) == int_text(a) \o <<"~">> \o int_text(b)

\* the field a status_code or response_time spec reads
numeric_actual(response_result, assertion) ==
  IF assertion.type = "status_code" THEN response_result.status_code
                                    ELSE response_result.elapsed_ms

MatchesIn ==
  IF responseIn.kind = "map" /\ responseIn.response_json.t # "none"
       /\ ~json_find(specIn.path, responseIn.response_json).raised
    THEN json_find(specIn.path, responseIn.response_json).matches
    ELSE <<>>

\* a value that is None, "" or []
EmptyValue(value) == value \in {VNone, VStr(<<>>), VList(0)}

\* C17: a json_path assertion with operator not_null whose path has at least
\* one match is PASS if and only if some matched value is not None, "" or [].
C17_NotNullAnyMatch ==
  (/\ assertPc = "done" /\ specIn.kind = "map" /\ specIn.type = "json_path"
   /\ specIn.operator = "not_null" /\ MatchesIn # <<>>) =>
    /\ ~verdictOut.raised
    /\ verdictOut.result = "PASS"
         <=> \E i \in 1..Len(MatchesIn) : ~EmptyValue(MatchesIn[i])

\* not_null passed on two matches of which one is None
C17_Witness ==
  /\ assertPc = "done"
  /\ specIn.type = "json_path"
  /\ specIn.operator = "not_null"
  /\ Len(MatchesIn) = 2
  /\ \E i \in 1..2 : EmptyValue(MatchesIn[i])
  /\ verdictOut.result = "PASS"

\* the path parses and matches nothing in a JSON body that is not null
NoMatch ==
  /\ responseIn.kind = "map"
  /\ responseIn.response_json.t # "none"
  /\ ~json_find(specIn.path, responseIn.response_json).raised
  /\ json_find(specIn.path, responseIn.response_json).matches = <<>>

\* C18: when the path of a json_path assertion matches nothing in a non-null
\* body, not_exists is PASS, exists is FAIL, and every other operator is
\* FAIL with the message "<path> not found".
C18_MissingPath ==
  (/\ assertPc = "done" /\ specIn.kind = "map" /\ specIn.type = "json_path"
   /\ NoMatch) =>
    /\ ~verdictOut.raised
    /\ specIn.operator = "not_exists" => verdictOut.result = "PASS"
    /\ specIn.operator = "exists" => verdictOut.result = "FAIL"
    /\ specIn.operator \notin {"exists", "not_exists"} =>
         /\ verdictOut.result = "FAIL"
         /\ verdictOut.message = Msg(" not found", specIn.path)

\* the value _run_json_path compares: the match, or the list of matches
ActualOf == IF Len(MatchesIn) = 1 THEN MatchesIn[1] ELSE VList(Len(MatchesIn))

\* a number, or a text made of digits (the numeric texts among the inputs)
LooksNumeric(value) ==
  \/ value.t \in {"int", "float"}
  \/ (value.t = "str" /\ value.s # <<>> /\ \A i \in 1..Len(value.s) : value.s[i] \in Digits)

\* its value in units of 1/Scale
NumericValue(value) ==
  IF value.t = "int" THEN value.n * Scale
  ELSE IF value.t = "float" THEN value.n
  ELSE digits_value(value.s) * Scale

\* C19: a json_path assertion with operator >, >=, <, <= or != on a matched
\* value fails with "expected number required for comparison" when expected
\* is not numeric (whatever actual is), fails with "actual value is not
\* numeric" when only actual is not numeric, and otherwise has the verdict
\* of the comparison.
C19_NumericMessages ==
  (/\ assertPc = "done" /\ specIn.kind = "map" /\ specIn.type = "json_path"
   /\ specIn.operator \in {">", ">=", "<", "<=", "!="} /\ MatchesIn # <<>>) =>
    /\ ~verdictOut.raised
    /\ IF ~LooksNumeric(specIn.expected)
         THEN /\ verdictOut.result = "FAIL"
              /\ verdictOut.message = Msg("expected number required for comparison", "")
         ELSE IF ~LooksNumeric(ActualOf)
           THEN /\ verdictOut.result = "FAIL"
                /\ verdictOut.message = Msg("actual value is not numeric", "")
           ELSE LET a == NumericValue(ActualOf)
                    e == NumericValue(specIn.expected)
                    holds == CASE specIn.operator = ">" -> a > e
                               [] specIn.operator = ">=" -> a >= e
                               [] specIn.operator = "<" -> a < e
                               [] specIn.operator = "<=" -> a <= e
                               [] OTHER -> a # e
                IN verdictOut.result = (IF holds THEN "PASS" ELSE "FAIL")

\* expected and actual are both not numeric: the message names expected
C19_Witness ==
  /\ assertPc = "done"
  /\ specIn.type = "json_path"
  /\ specIn.operator = ">"
  /\ MatchesIn # <<>>
  /\ specIn.expected = VStr(TextA)
  /\ ActualOf = VStr(<<>>)
  /\ verdictOut.message = Msg("expected number required for comparison", "")

\* C20: a verdict returned by the engine has an empty message if and only if
\* its result is PASS; a FAIL verdict made from a caught internal exception
\* carries a message too.
C20_MessageIffFail ==
  (assertPc = "done" /\ ~verdictOut.raised) =>
    /\ verdictOut.result \in {"PASS", "FAIL"}
    /\ verdictOut.message = NoMsg <=> verdictOut.result = "PASS"

\* a handler raised (a text status code compared with ">="), the exception
\* was caught and the verdict is FAIL with the message "exception: ..."
C20_Witness ==
  /\ assertPc = "done"
  /\ specIn.type = "status_code"
  /\ specIn.operator = ">="
  /\ responseIn.kind = "map"
  /\ responseIn.status_code.t = "str"
  /\ verdictOut.result = "FAIL"
  /\ verdictOut.message = Msg("exception: ", "")

\* ---- run_cases (SpecRun)

\* C21: run_cases does not raise and returns exactly one result per submitted
\* case, none lost and none twice; BatchExecutor returns them in submission
\* order.
C21_OneResultPerCase ==
  rcPc \in {"returned", "raised"} =>
    /\ rcPc = "returned"
    /\ Len(rcResults) = Len(rcCases)
    /\ \A i \in 1..Len(rcCases) :
         Cardinality({j \in 1..Len(rcResults) : rcResults[j].case_id = i}) = 1
    /\ rcMode = "seq" => \A i \in 1..Len(rcResults) : rcResults[i].case_id = i

\* ---- controller (SpecCtl)

\* C22: every error raised while run_suite_async sets up or starts the run
\* is caught there: in the step that catches it the on_finished listener,
\* when there is one, is invoked exactly once, with the envelope (no cases,
\* summary 0/0/0, an error field), no other listener call or export is
\* made, and _batch_running is left false.
C22_SetupErrorReported ==
  [][errorLog' # errorLog =>
       /\ Len(errorLog') = Len(errorLog) + 1
       /\ ~batch_running'
       /\ exportLog' = exportLog
       /\ callbackLog' =
            IF errorLog'[Len(errorLog')].on_finished # "None"
              THEN Append(callbackLog, Envelope)
              ELSE callbackLog]_vars

\* an error raised inside executor.start() was caught and reported to a
\* listener
C22_Witness ==
  /\ \E i \in 1..Len(errorLog) :
       errorLog[i].at = "start" /\ errorLog[i].on_finished # "None"
  /\ \E j \in 1..Len(callbackLog) : callbackLog[j] = Envelope
  /\ ~batch_running

\* C27: for the run started by run_suite_async, _on_suite_finished is
\* executed at most once: at most one export and one listener call, each
\* with the suite name of that run.
C27_SuiteFinishedOnce ==
  /\ slotRuns <= 1
  /\ Len(exportLog) <= 1
  /\ Cardinality({i \in 1..Len(callbackLog) : callbackLog[i].kind = "result"}) <= 1
  /\ \A i \in 1..Len(exportLog) : exportLog[i].suite_name = "suite"
  /\ \A i \in 1..Len(callbackLog) :
       callbackLog[i].kind = "result" => callbackLog[i].suite_name = "suite"

\* thread 0 is inside BatchThreadExecutor.cancel
InCancel == \E i \in 1..Len(ctlPc) : ctlPc[i].f \in {"cancel", "cancel_exit"}

\* C28: cancel() and _on_case_done always terminate: a thread that has
\* entered cancel() leaves it, and a pool thread that has entered
\* _on_case_done leaves it.
C28_LockNeverBlocksForever ==
  /\ InCancel ~> ~InCancel
  /\ \A c \in CaseIds : (pc[c] = "ready") ~> (pc[c] \in {"exited", "raised"})

\* thread 0 is inside _on_suite_finished itself (not inside a call made by it)
InSlot == ctlPc # <<>> /\ Top.f \in {"slot", "slot_callback", "slot_clear"}

\* the idle state of the controller
ControllerIdle == ~batch_running /\ batch_executor = "None" /\ ~batch_canceled

\* C29: whenever _on_suite_finished ends, after a normal or a canceled run
\* and whether or not the export succeeded, the controller is idle:
\* _batch_running false, _batch_executor cleared, _batch_canceled false.
C29_IdleAfterFinish ==
  [][(InSlot /\ Len(ctlPc') < Len(ctlPc)) => ControllerIdle']_vars

\* thread 0 executes the statement at the top of its stack
Thread0Moves == ctlPc' # ctlPc

\* C30: a call of run_suite_async made while _batch_running is true returns
\* without creating or starting an executor, without invoking a listener or
\* exporting, and without changing the suite name, the finished listener or
\* the canceled flag of the run in progress; cancel_suite called while no
\* executor is set changes nothing.
C30_OneRunAtATime ==
  [][/\ (ctlPc # <<>> /\ Top.f = "run_suite_async" /\ batch_running /\ Thread0Moves) =>
          /\ ctlPc' = Pop(ctlPc)
          /\ UNCHANGED <<batch_running, batch_executor, batch_canceled, suite_name,
                         suite_on_finished, callbackLog, exportLog, slotRuns,
                         handled, errorLog, runCalls>>
          /\ UNCHANGED batchVars
     /\ (ctlPc # <<>> /\ Top.f = "cancel_suite" /\ batch_executor = "None" /\ Thread0Moves) =>
          /\ ctlPc' = Pop(ctlPc)
          /\ UNCHANGED <<batch_running, batch_executor, batch_canceled, suite_name,
                         suite_on_finished, callbackLog, exportLog, slotRuns,
                         handled, errorLog, runCalls>>
          /\ UNCHANGED batchVars]_vars

\* run_suite_async was called during a run and has returned, the run going on
C30_Witness ==
  /\ ignoredCall
  /\ batch_running
  /\ batch_executor = "executor"
  /\ ctlPc = <<>>
  /\ Unfinished # {}

\* ---- run_assertions (SpecList)

\* C11: run_assertions returns a list as long as the specs whose i-th verdict
\* is the evaluation of the i-th spec on its own (a verdict that is FAIL when
\* that evaluation hits an internal exception), whatever the other specs are.
C11_OneVerdictPerSpec ==
  assertPc = "done_list" =>
    /\ ~verdictsOut.raised
    /\ Len(verdictsOut.items) = Len(specsIn)
    /\ \A i \in 1..Len(specsIn) :
         /\ verdictsOut.items[i].result \in {"PASS", "FAIL"}
         /\ specsIn[i].kind = "map"
              => verdictsOut.items[i] = run_single(responseIn, specsIn[i])

\* C10: _run_single never raises: every call returns a verdict whose result
\* is PASS or FAIL.
C10_RunSingleNeverRaises ==
  assertPc = "done" => (~verdictOut.raised /\ verdictOut.result \in {"PASS", "FAIL"})


====
